---------------------------- MODULE Spec2Model ----------------------------
(***************************************************************************)
(* A model of the SCiPnet wire protocol (CS50xFP/utils/socket), of the     *)
(* message validators (CS50xFP/utils/general/validation.py) and of the     *)
(* server's access-control engine (CS50xFP/utils/server/actions.py).       *)
(*                                                                         *)
(* Python values are tagged records [k |-> kind, v |-> payload]; a Python  *)
(* str is a sequence of one-character strings, a dict is the sequence of   *)
(* its <<key, value>> items in insertion order, bytes are sequences of     *)
(* integers 0..255.  A call's result is [err |-> name, val |-> value]     *)
(* with err = "none" when the call returned.                               *)
(***************************************************************************)
EXTENDS Integers, Sequences, FiniteSets, TLC

VARIABLES
    arg,      \* pure-function runs: the chosen input [t, d, shape]
    rGen,     \* result of gen_msg(arg.t, arg.d)
    rVal,     \* result of validate_msg(gen_msg(arg.t, arg.d))
    rRaw,     \* result of validate_msg on the raw message built from arg
    rEnc,     \* result of encode(message)
    rDec,     \* result of decode(encode(message))
    rBody,    \* result of decode(payload of encode(message)), as recv does
    user,     \* access: the authenticated requester of the session
    store,    \* access: the records of the record store
    req,      \* access: the last request <<f_type, f_id>>
    resp,     \* access: the result of the last call of access
    audit,    \* access: the audit trail, a sequence of entries
    lookups,  \* access: the number of record lookups made so far
    served,   \* access: the number of requests served so far
    conn,     \* recv: the peer's end of the connection
    rx,       \* recv: the position and the locals of recv
    rRecv,    \* recv: the result of recv
    sock,     \* socket calls: the socket's timeout and the bytes written to it
    sarg,     \* socket calls: the chosen call and its input
    rSock,    \* socket calls: what the call left behind
    accounts, \* authentication: the stored users
    aarg,     \* authentication: the chosen input <<user_id, password>>
    rAuth,    \* authentication: the result of auth_usr
    sess,     \* session: the position and the effects of handle_usr
    dbs,      \* db_session: one use of the context manager and its trace
    logger    \* log_event: the audit table and the threads writing to it

pureVars == <<arg, rGen, rVal, rRaw, rEnc, rDec, rBody>>
accessVars == <<user, store, req, resp, audit, lookups, served>>
recvVars == <<conn, rx, rRecv>>
sockVars == <<sock, sarg, rSock>>
authVars == <<accounts, aarg, rAuth>>
dbVars == <<dbs, logger>>
vars == <<pureVars, accessVars, recvVars, sockVars, authVars, sess, dbVars>>

-----------------------------------------------------------------------------
(* Python values *)

PyInt(n)   == [k |-> "int",  v |-> n]
PyStr(s)   == [k |-> "str",  v |-> s]
PyBool(b)  == [k |-> "bool", v |-> b]
PyNone     == [k |-> "none", v |-> 0]
PyEnum(s)  == [k |-> "enum", v |-> s]    \* a MessageTypes member (a StrEnum)
PyDict(kv) == [k |-> "dict", v |-> kv]
PyList(xs) == [k |-> "list", v |-> xs]

Ok(v)   == [err |-> "none", val |-> v]
Raise(e) == [err |-> e, val |-> PyNone]
NotRun  == [err |-> "notrun", val |-> PyNone]

Range(s) == {s[i] : i \in DOMAIN s}

\* dict helpers: items are <<key, value>>, keys are Python values
Keys(d)     == [i \in DOMAIN d.v |-> d.v[i][1]]
KeySet(d)   == {d.v[i][1] : i \in DOMAIN d.v}
HasKey(d, key) == \E i \in DOMAIN d.v : d.v[i][1] = key
Get(d, key) == d.v[CHOOSE i \in DOMAIN d.v : d.v[i][1] = key][2]

\* Python's == on the modelled values: int and bool compare as numbers, a
\* StrEnum member equals the str of its value, dicts compare as mappings.
IsNum(a) == a.k \in {"int", "bool"}
Num(a)   == IF a.k = "bool" THEN (IF a.v THEN 1 ELSE 0) ELSE a.v
IsText(a) == a.k \in {"str", "enum"}

RECURSIVE PyEq(_, _)
PyEq(a, b) ==
    IF IsNum(a) /\ IsNum(b) THEN Num(a) = Num(b)
    ELSE IF IsText(a) /\ IsText(b) THEN a.v = b.v
    ELSE IF a.k # b.k THEN FALSE
    ELSE IF a.k = "none" THEN TRUE
    ELSE IF a.k = "list" THEN
        /\ Len(a.v) = Len(b.v)
        /\ \A i \in DOMAIN a.v : PyEq(a.v[i], b.v[i])
    ELSE \* dict
        /\ Len(a.v) = Len(b.v)
        /\ \A i \in DOMAIN a.v :
              \E j \in DOMAIN b.v :
                 /\ PyEq(a.v[i][1], b.v[j][1])
                 /\ PyEq(a.v[i][2], b.v[j][2])

-----------------------------------------------------------------------------
(* protocol.py *)

s_type   == <<"t","y","p","e">>
s_data   == <<"d","a","t","a">>
s_user_id  == <<"u","s","e","r","_","i","d">>
s_password == <<"p","a","s","s","w","o","r","d">>
s_field  == <<"f","i","e","l","d">>
s_user   == <<"u","s","e","r">>
s_f_type == <<"f","_","t","y","p","e">>
s_f_id   == <<"f","_","i","d">>
s_user_clear   == <<"u","s","e","r","_","c","l","e","a","r">>
s_user_hex     == <<"u","s","e","r","_","h","e","x">>
s_needed_clear == <<"n","e","e","d","e","d","_","c","l","e","a","r">>
s_needed_hex   == <<"n","e","e","d","e","d","_","h","e","x">>
s_file   == <<"f","i","l","e">>

AUTH_REQUEST    == <<"a","u","t","h","_","r","e","q","u","e","s","t">>
AUTH_FAILED     == <<"a","u","t","h","_","f","a","i","l","e","d">>
AUTH_SUCCESS    == <<"a","u","t","h","_","s","u","c","c","e","s","s">>
ACCESS_REQUEST  == <<"a","c","c","e","s","s","_","r","e","q","u","e","s","t">>
ACCESS_REDACTED == <<"a","c","c","e","s","s","_","r","e","d","a","c","t","e","d">>
ACCESS_EXPUNGED == <<"a","c","c","e","s","s","_","e","x","p","u","n","g","e","d">>
ACCESS_GRANTED  == <<"a","c","c","e","s","s","_","g","r","a","n","t","e","d">>

\* the values of the members of the MessageTypes enum
MessageTypes ==
    {AUTH_REQUEST, AUTH_FAILED, AUTH_SUCCESS,
     ACCESS_REQUEST, ACCESS_REDACTED, ACCESS_EXPUNGED, ACCESS_GRANTED}

MESSAGE_KEYS == {PyStr(s_type), PyStr(s_data)}

\* type hints: a plain class, or a parameterized generic such as
\* dict[str, Any], which isinstance() refuses with a TypeError
T_int  == [origin |-> "int",  generic |-> FALSE]
T_str  == [origin |-> "str",  generic |-> FALSE]
T_dict == [origin |-> "dict", generic |-> FALSE]
T_dict_str_any == [origin |-> "dict", generic |-> TRUE]

AuthRequestData    == << <<s_user_id, T_int>>, <<s_password, T_str>> >>
AuthFailedData     == << <<s_field, T_str>> >>
AuthSuccessData    == << <<s_user, T_dict_str_any>> >>
AccessRequestData  == << <<s_f_type, T_str>>, <<s_f_id, T_int>> >>
AccessRedactedData == << <<s_user_clear, T_str>>, <<s_user_hex, T_str>>,
                         <<s_needed_clear, T_str>>, <<s_needed_hex, T_str>> >>
AccessExpungedData == << <<s_f_type, T_str>>, <<s_f_id, T_int>> >>
AccessGrantedData  == << <<s_file, T_dict_str_any>> >>

\* format_map: member -> the annotations of its data TypedDict, in order
format_map(m) ==
    CASE m = AUTH_REQUEST    -> AuthRequestData
      [] m = AUTH_FAILED     -> AuthFailedData
      [] m = AUTH_SUCCESS    -> AuthSuccessData
      [] m = ACCESS_REQUEST  -> AccessRequestData
      [] m = ACCESS_REDACTED -> AccessRedactedData
      [] m = ACCESS_EXPUNGED -> AccessExpungedData
      [] m = ACCESS_GRANTED  -> AccessGrantedData

SchemaKeys(m) == {PyStr(format_map(m)[i][1]) : i \in DOMAIN format_map(m)}

-----------------------------------------------------------------------------
(* validation.py *)

\* isinstance(val, cls) for a plain class: bool is a subclass of int and a
\* StrEnum member is a str
IsInstance(val, cls) ==
    CASE cls = "int"  -> val.k \in {"int", "bool"}
      [] cls = "str"  -> val.k \in {"str", "enum"}
      [] cls = "dict" -> val.k = "dict"
      [] cls = "bool" -> val.k = "bool"
      [] OTHER -> FALSE

\* validate_field: "none" when it returns, else the exception raised
validate_field(field_val, expected_type) ==
    IF expected_type.generic THEN "TypeError"   \* raised by isinstance itself
    ELSE IF ~IsInstance(field_val, expected_type.origin) THEN "TypeError"
    ELSE "none"

\* validate_enum(field, field_val, MessageTypes): MessageTypes(field_val)
\* returns the member for a member and for a str equal to a member's value
validate_enum(field_val) ==
    IF IsText(field_val) /\ field_val.v \in MessageTypes
    THEN Ok(PyEnum(field_val.v))
    ELSE Raise("ValueError")

\* the first failing value check of validate_dict's last loop
RECURSIVE FirstValueError(_, _, _)
FirstValueError(field_val, annotations, i) ==
    IF i > Len(annotations) THEN "none"
    ELSE LET e == validate_field(Get(field_val, PyStr(annotations[i][1])),
                                 annotations[i][2])
         IN  IF e # "none" THEN e
             ELSE FirstValueError(field_val, annotations, i + 1)

\* a validate_dict whose value checks run before the key-set comparison
validate_dict_values_first(field_val, format) ==
    IF validate_field(field_val, T_dict) # "none" THEN "TypeError"
    ELSE IF \E key \in KeySet(field_val) : validate_field(key, T_str) # "none"
         THEN "TypeError"
    ELSE IF format = <<>> THEN "none"
    ELSE IF \E i \in DOMAIN format :
              /\ HasKey(field_val, PyStr(format[i][1]))
              /\ validate_field(Get(field_val, PyStr(format[i][1])),
                                format[i][2]) # "none"
         THEN "TypeError"
    ELSE IF KeySet(field_val) #
              {PyStr(format[i][1]) : i \in DOMAIN format}
         THEN "ValueError"
    ELSE "none"

\* validate_dict(field, field_val, format); format = <<>> stands for None
validate_dict(field_val, format) ==
    IF validate_field(field_val, T_dict) # "none" THEN "TypeError"
    ELSE IF \E key \in KeySet(field_val) : validate_field(key, T_str) # "none"
         THEN "TypeError"
    ELSE IF format = <<>> THEN "none"
    ELSE IF KeySet(field_val) #
              {PyStr(format[i][1]) : i \in DOMAIN format}
         THEN "ValueError"
    ELSE FirstValueError(field_val, format, 1)

\* a validate_msg that stops after the envelope and type checks
validate_msg_envelope(msg) ==
    IF validate_dict(msg, <<>>) # "none" THEN Raise(validate_dict(msg, <<>>))
    ELSE IF KeySet(msg) # MESSAGE_KEYS THEN Raise("ValueError")
    ELSE LET msg_type == validate_enum(Get(msg, PyStr(s_type)))
         IN  IF msg_type.err # "none" THEN Raise(msg_type.err) ELSE Ok(msg)

validate_msg(msg) ==
    IF validate_dict(msg, <<>>) # "none" THEN Raise(validate_dict(msg, <<>>))
    ELSE IF KeySet(msg) # MESSAGE_KEYS THEN Raise("ValueError")
    ELSE LET msg_type == validate_enum(Get(msg, PyStr(s_type)))
         IN  IF msg_type.err # "none" THEN Raise(msg_type.err)
             ELSE LET expected_format == format_map(msg_type.val.v)
                      \* the message itself, not msg['data'], is checked
                      \* against the data format
                      e == validate_dict(msg, expected_format)
                  IN  IF e # "none" THEN Raise(e) ELSE Ok(msg)

-----------------------------------------------------------------------------
(* builders.py *)

gen_msg(msg_type, data) ==
    LET validated_type == validate_enum(msg_type)
    IN  IF validated_type.err # "none" THEN Raise(validated_type.err)
        ELSE LET expected_format == format_map(validated_type.val.v)
                 e == validate_dict(data, expected_format)
             IN  IF e # "none" THEN Raise(e)
                 ELSE Ok(PyDict(<< <<PyStr(s_type), msg_type>>,
                                   <<PyStr(s_data), data>> >>))

-----------------------------------------------------------------------------
(* text and bytes: str.encode() / bytes.decode() on ASCII text *)

\* the printable ASCII characters, code 32 first (code 96 is named)
Printable ==
    <<
       " ", "!", "\"", "#", "$", "%", "&", "'", "(", ")", "*", "+",
       ",", "-", ".", "/", "0", "1", "2", "3", "4", "5", "6", "7",
       "8", "9", ":", ";", "<", "=", ">", "?", "@", "A", "B", "C",
       "D", "E", "F", "G", "H", "I", "J", "K", "L", "M", "N", "O",
       "P", "Q", "R", "S", "T", "U", "V", "W", "X", "Y", "Z", "[",
       "\\", "]", "^", "_", "grave", "a", "b", "c", "d", "e", "f", "g",
       "h", "i", "j", "k", "l", "m", "n", "o", "p", "q", "r", "s",
       "t", "u", "v", "w", "x", "y", "z", "{", "|", "}", "~"
    >>

Ord(c) == CHOOSE b \in 32..126 : Printable[b - 31] = c

\* the character of a byte below 128; control characters other than the
\* JSON whitespace are not told apart
Chr(b) ==
    IF b \in 32..126 THEN Printable[b - 31]
    ELSE IF b = 9 THEN "\t"
    ELSE IF b = 10 THEN "\n"
    ELSE IF b = 13 THEN "\r"
    ELSE "ctl"

str_encode(text) == [i \in DOMAIN text |-> Ord(text[i])]

\* bytes.decode(): a byte of 128 or more that is not part of a well-formed
\* multi-byte sequence raises UnicodeDecodeError (the frames modelled here
\* hold such a byte only in the length header, followed by an ASCII byte)
bytes_decode(data) ==
    IF \E i \in DOMAIN data : data[i] >= 128
    THEN Raise("UnicodeDecodeError")
    ELSE Ok([i \in DOMAIN data |-> Chr(data[i])])

\* struct.pack('!I', n): four bytes, most significant first
pack(n) ==
    << (n \div 16777216) % 256, (n \div 65536) % 256,
       (n \div 256) % 256, n % 256 >>

\* struct.unpack('!I', header)[0]
unpack(header) ==
    header[1] * 16777216 + header[2] * 65536 + header[3] * 256 + header[4]

-----------------------------------------------------------------------------
(* json.dumps with its defaults: separators ", " and ": ", ASCII output *)

Digit == <<"0", "1", "2", "3", "4", "5", "6", "7", "8", "9">>

RECURSIVE Decimal(_)
Decimal(n) ==
    IF n < 10 THEN <<Digit[n + 1]>>
    ELSE Decimal(n \div 10) \o <<Digit[(n % 10) + 1]>>

int_repr(n) == IF n < 0 THEN <<"-">> \o Decimal(0 - n) ELSE Decimal(n)

\* the escapes json.dumps applies to printable ASCII
escape_char(c) ==
    IF c = "\"" THEN <<"\\", "\"">>
    ELSE IF c = "\\" THEN <<"\\", "\\">>
    ELSE <<c>>

RECURSIVE escape(_)
escape(s) ==
    IF s = <<>> THEN <<>> ELSE escape_char(Head(s)) \o escape(Tail(s))

\* a string written between quotes with no escaping
dumps_str_raw(s) == <<"\"">> \o s \o <<"\"">>

dumps_str(s) == <<"\"">> \o escape(s) \o <<"\"">>

\* a dict key as json.dumps writes it: str as is, int, bool and None
\* converted to their JSON text
key_text(key) ==
    CASE IsText(key)     -> key.v
      [] key.k = "int"   -> int_repr(key.v)
      [] key.k = "bool"  -> IF key.v THEN <<"t","r","u","e">>
                                     ELSE <<"f","a","l","s","e">>
      [] key.k = "none"  -> <<"n","u","l","l">>

RECURSIVE dumps(_)
RECURSIVE dumps_items(_, _)
RECURSIVE dumps_elems(_, _)
dumps(obj) ==
    CASE IsText(obj)     -> dumps_str(obj.v)
      [] obj.k = "int"   -> int_repr(obj.v)
      [] obj.k = "bool"  -> IF obj.v THEN <<"t","r","u","e">>
                                     ELSE <<"f","a","l","s","e">>
      [] obj.k = "none"  -> <<"n","u","l","l">>
      [] obj.k = "list"  -> <<"[">> \o dumps_elems(obj.v, 1) \o <<"]">>
      [] obj.k = "dict"  -> <<"{">> \o dumps_items(obj.v, 1) \o <<"}">>

dumps_items(kv, i) ==
    IF i > Len(kv) THEN <<>>
    ELSE (IF i > 1 THEN <<",", " ">> ELSE <<>>)
         \o dumps_str(key_text(kv[i][1])) \o <<":", " ">> \o dumps(kv[i][2])
         \o dumps_items(kv, i + 1)

dumps_elems(xs, i) ==
    IF i > Len(xs) THEN <<>>
    ELSE (IF i > 1 THEN <<",", " ">> ELSE <<>>)
         \o dumps(xs[i]) \o dumps_elems(xs, i + 1)

-----------------------------------------------------------------------------
(* json.loads: the JSON grammar of objects, arrays, strings, integers and  *)
(* the literals true, false, null (json.dumps writes nothing else for the  *)
(* values modelled; \u escapes and floats are outside the model)           *)

Fail == [ok |-> FALSE, val |-> PyNone, pos |-> 0]
Parsed(v, p) == [ok |-> TRUE, val |-> v, pos |-> p]

At(t, i) == IF i \in DOMAIN t THEN t[i] ELSE "eof"

IsDigit(c) == \E d \in 1..10 : Digit[d] = c
DigitVal(c) == (CHOOSE d \in 1..10 : Digit[d] = c) - 1

RECURSIVE SkipWs(_, _)
SkipWs(t, i) ==
    IF At(t, i) \in {" ", "\t", "\n", "\r"} THEN SkipWs(t, i + 1) ELSE i

\* the characters of a string whose opening quote is at i - 1
RECURSIVE ScanStr(_, _, _)
ScanStr(t, i, acc) ==
    LET c == At(t, i) IN
    IF c = "eof" THEN Fail
    ELSE IF c = "\"" THEN Parsed(acc, i + 1)
    ELSE IF c = "\\" THEN
        LET e == At(t, i + 1) IN
        IF e \in {"\"", "\\", "/"} THEN ScanStr(t, i + 2, Append(acc, e))
        ELSE IF e = "n" THEN ScanStr(t, i + 2, Append(acc, "\n"))
        ELSE IF e = "r" THEN ScanStr(t, i + 2, Append(acc, "\r"))
        ELSE IF e = "t" THEN ScanStr(t, i + 2, Append(acc, "\t"))
        ELSE Fail
    ELSE IF c \in {"ctl", "\t", "\n", "\r"} THEN Fail
    ELSE ScanStr(t, i + 1, Append(acc, c))

RECURSIVE ScanDigits(_, _, _)
ScanDigits(t, i, acc) ==
    IF IsDigit(At(t, i)) THEN ScanDigits(t, i + 1, acc * 10 + DigitVal(t[i]))
    ELSE Parsed(acc, i)

ParseNumber(t, i) ==
    LET neg == At(t, i) = "-"
        j   == IF neg THEN i + 1 ELSE i
        n   == IF At(t, j) = "0" THEN Parsed(0, j + 1)
               ELSE ScanDigits(t, j, 0)
    IN  IF ~IsDigit(At(t, j)) THEN Fail
        ELSE Parsed(PyInt(IF neg THEN 0 - n.val ELSE n.val), n.pos)

Matches(t, i, word) ==
    /\ i + Len(word) - 1 <= Len(t)
    /\ SubSeq(t, i, i + Len(word) - 1) = word

\* dict[key] = val: a repeated key keeps its place and takes the new value
Put(kv, key, val) ==
    IF \E i \in DOMAIN kv : kv[i][1] = key
    THEN [i \in DOMAIN kv |-> IF kv[i][1] = key THEN <<key, val>> ELSE kv[i]]
    ELSE Append(kv, <<key, val>>)

RECURSIVE ParseValue(_, _)
RECURSIVE ParseMembers(_, _, _)
RECURSIVE ParseElems(_, _, _)

ParseValue(t, i) ==
    LET c == At(t, i) IN
    IF c = "\"" THEN
        LET s == ScanStr(t, i + 1, <<>>) IN
        IF s.ok THEN Parsed(PyStr(s.val), s.pos) ELSE Fail
    ELSE IF c = "{" THEN
        LET j == SkipWs(t, i + 1) IN
        IF At(t, j) = "}" THEN Parsed(PyDict(<<>>), j + 1)
        ELSE ParseMembers(t, j, <<>>)
    ELSE IF c = "[" THEN
        LET j == SkipWs(t, i + 1) IN
        IF At(t, j) = "]" THEN Parsed(PyList(<<>>), j + 1)
        ELSE ParseElems(t, j, <<>>)
    ELSE IF Matches(t, i, <<"t","r","u","e">>) THEN Parsed(PyBool(TRUE), i + 4)
    ELSE IF Matches(t, i, <<"f","a","l","s","e">>)
         THEN Parsed(PyBool(FALSE), i + 5)
    ELSE IF Matches(t, i, <<"n","u","l","l">>) THEN Parsed(PyNone, i + 4)
    ELSE IF c = "-" \/ IsDigit(c) THEN ParseNumber(t, i)
    ELSE Fail

\* the members of an object from the key at j on, up to the closing brace
ParseMembers(t, j, acc) ==
    IF At(t, j) # "\"" THEN Fail
    ELSE LET key == ScanStr(t, j + 1, <<>>) IN
         IF ~key.ok THEN Fail
         ELSE LET c == SkipWs(t, key.pos) IN
              IF At(t, c) # ":" THEN Fail
              ELSE LET v == ParseValue(t, SkipWs(t, c + 1)) IN
                   IF ~v.ok THEN Fail
                   ELSE LET acc2 == Put(acc, PyStr(key.val), v.val)
                            m == SkipWs(t, v.pos)
                        IN  IF At(t, m) = "}" THEN Parsed(PyDict(acc2), m + 1)
                            ELSE IF At(t, m) = ","
                            THEN ParseMembers(t, SkipWs(t, m + 1), acc2)
                            ELSE Fail

\* the elements of an array from the value at j on, up to the bracket
ParseElems(t, j, acc) ==
    LET v == ParseValue(t, j) IN
    IF ~v.ok THEN Fail
    ELSE LET acc2 == Append(acc, v.val)
             m == SkipWs(t, v.pos)
         IN  IF At(t, m) = "]" THEN Parsed(PyList(acc2), m + 1)
             ELSE IF At(t, m) = ","
             THEN ParseElems(t, SkipWs(t, m + 1), acc2)
             ELSE Fail

loads(text) ==
    LET r == ParseValue(text, SkipWs(text, 1)) IN
    IF ~r.ok THEN Raise("JSONDecodeError")
    ELSE IF SkipWs(text, r.pos) <= Len(text) THEN Raise("JSONDecodeError")
    ELSE Ok(r.val)

-----------------------------------------------------------------------------
(* server_config.py: class Socket *)

RCV_S     == 4096
MAX_MSG_S == 52428800
HEADER_S  == 4

-----------------------------------------------------------------------------
(* socket/helpers.py *)

PyBytes(bs) == [k |-> "bytes", v |-> bs]

\* len(data) of validate_data
PyLen(data) == IF data.k \in {"dict", "list", "str", "enum", "bytes"}
               THEN Len(data.v) ELSE 0 - 1

\* validate_data: "none" when it returns
validate_data(data) ==
    IF data.k = "none" THEN "ValueError"
    ELSE IF PyLen(data) < 0 THEN "TypeError"      \* len() of an int
    ELSE IF PyLen(data) = 0 THEN "ValueError"
    ELSE "none"

encode(data) ==
    IF validate_data(data) # "none" THEN Raise(validate_data(data))
    ELSE LET encoded_data == str_encode(dumps(data))
             size   == pack(Len(encoded_data))
             result == size \o encoded_data
         IN  IF Len(result) > MAX_MSG_S THEN Raise("MaxSizeLimitError")
             ELSE Ok(PyBytes(result))

decode(data) ==
    IF data.k # "bytes" THEN Raise("TypeError")
    ELSE LET text == bytes_decode(data.v) IN
         IF text.err # "none" THEN Raise("ValueError")
         ELSE LET r == loads(text.val) IN
              IF r.err # "none" THEN Raise("ValueError") ELSE r

-----------------------------------------------------------------------------
(* general/server_config.py, general/display_config.py *)

s_id   == <<"i","d">>
s_SCP  == <<"S","C","P">>
s_MTF  == <<"M","T","F">>
s_SITE == <<"S","I","T","E">>
s_USER == <<"U","S","E","R">>

\* the keys of Server.VALID_F_TYPES, in insertion order
VALID_F_TYPES == <<s_SCP, s_MTF, s_SITE, s_USER>>

\* Styles.CLEAR_LVL; the colour of level n is CLEAR_LVL[n + 1]
CLEAR_LVL ==
    << <<>>, <<"#","0","0","9","F","6","B">>,
       <<"#","0","0","8","7","B","D">>, <<"#","F","F","D","3","0","0">>,
       <<"#","F","F","6","D","0","0">>, <<"#","C","4","0","2","3","3">>,
       <<"#","8","5","0","0","0","5">> >>

\* general/sql_config.py: the placeholder of a missing text
EXPUNGED == <<"[","D","A","T","A"," ","E","X","P","U","N","G","E","D","]">>

-----------------------------------------------------------------------------
(* general/validation.py: scalar validators; "none" when they return *)

validate_str(field_val) ==
    IF validate_field(field_val, T_str) # "none" THEN "TypeError"
    ELSE IF field_val.v = <<>> \/ \A i \in DOMAIN field_val.v :
                 field_val.v[i] \in {" ", "\t", "\n", "\r"}
         THEN "ValueError"
    ELSE "none"

\* HEX_REGEX = ^#[0-9a-fA-F]{6}$
validate_hex(field_val) ==
    IF validate_str(field_val) # "none" THEN validate_str(field_val)
    ELSE IF /\ Len(field_val.v) = 7
            /\ field_val.v[1] = "#"
            /\ \A i \in 2..7 : field_val.v[i] \in
                  {"0","1","2","3","4","5","6","7","8","9",
                   "a","b","c","d","e","f","A","B","C","D","E","F"}
         THEN "none"
    ELSE "ValueError"

validate_int(field_val, non_negative, positive) ==
    IF validate_field(field_val, T_int) # "none" THEN "TypeError"
    ELSE IF positive /\ Num(field_val) <= 0 THEN "ValueError"
    ELSE IF non_negative /\ Num(field_val) < 0 THEN "ValueError"
    ELSE "none"

\* `f_type in Server.VALID_F_TYPES`: the bool is returned, an unhashable
\* f_type raises
validate_f_type(f_type) ==
    IF f_type.k \in {"dict", "list"} THEN Raise("TypeError")
    ELSE Ok(PyBool(IsText(f_type) /\ f_type.v \in Range(VALID_F_TYPES)))

\* the requester address is checked to be a str holding an address
validate_ip(field_val) ==
    IF validate_str(field_val) # "none" THEN validate_str(field_val)
    ELSE "none"

-----------------------------------------------------------------------------
(* socket/builders.py: the access responses *)

gen_access_type_fail(tried) ==
    IF validate_str(tried) # "none" THEN Raise(validate_str(tried))
    ELSE LET ACCESS_TYPE_FAIL == <<"a","c","c","e","s","s","_","t","y","p","e","_","f","a","i","l">>
         IN  \* MessageTypes.ACCESS_TYPE_FAIL is looked up on the enum
             IF ACCESS_TYPE_FAIL \notin MessageTypes
             THEN Raise("AttributeError")
             ELSE gen_msg(PyEnum(ACCESS_TYPE_FAIL),
                     PyDict(<< <<PyStr(<<"t","r","i","e","d">>), tried>>,
                               <<PyStr(<<"v","a","l","i","d">>),
                                 PyList([i \in DOMAIN VALID_F_TYPES |->
                                            PyStr(VALID_F_TYPES[i])])>> >>))

gen_access_redacted(user_clear, user_hex, needed_clear, needed_hex) ==
    IF validate_str(user_clear) # "none" THEN Raise(validate_str(user_clear))
    ELSE IF validate_hex(user_hex) # "none" THEN Raise(validate_hex(user_hex))
    ELSE IF validate_str(needed_clear) # "none"
         THEN Raise(validate_str(needed_clear))
    ELSE IF validate_hex(needed_hex) # "none"
         THEN Raise(validate_hex(needed_hex))
    ELSE gen_msg(PyEnum(ACCESS_REDACTED),
            PyDict(<< <<PyStr(s_user_clear), user_clear>>,
                      <<PyStr(s_user_hex), user_hex>>,
                      <<PyStr(s_needed_clear), needed_clear>>,
                      <<PyStr(s_needed_hex), needed_hex>> >>))

\* a builder that answers a missing record with the message of a refusal
gen_access_expunged_redacted(f_type, f_id) ==
    gen_access_redacted(PyStr(<<"L", "1">>), PyStr(CLEAR_LVL[2]),
                        PyStr(<<"L", "2">>), PyStr(CLEAR_LVL[3]))

gen_access_expunged(f_type, f_id) ==
    IF validate_str(f_type) # "none" THEN Raise(validate_str(f_type))
    ELSE IF validate_int(f_id, TRUE, TRUE) # "none"
         THEN Raise(validate_int(f_id, TRUE, TRUE))
    ELSE gen_msg(PyEnum(ACCESS_EXPUNGED),
            PyDict(<< <<PyStr(s_f_type), f_type>>,
                      <<PyStr(s_f_id), f_id>> >>))

gen_access_granted(data) ==
    IF validate_dict(data, <<>>) # "none" THEN Raise(validate_dict(data, <<>>))
    ELSE gen_msg(PyEnum(ACCESS_GRANTED), data)

-----------------------------------------------------------------------------
(* server: the record store, the text store and the audit sink *)

\* a record of the store: f_type and id are its table and primary key;
\* clearance_lvl is the id of its clearance level (0 for a Site or an MTF,
\* which have none); texts is the set of its texts that exist on disk
Record(f_type, id, clearance_lvl, texts) ==
    [f_type |-> f_type, id |-> id, clearance_lvl |-> clearance_lvl,
     texts |-> texts]

\* session.get(f_model_class, f_id): the set holding the record, or {}
session_get(records, f_type, f_id) ==
    {r \in records : r.f_type = f_type /\ r.id = f_id}

\* clearance_lvl.name, which display_clearance returns
ClearanceName(lvl) == <<"L", "e", "v", "e", "l", " ">> \o Decimal(lvl)

s_desc    == <<"d","e","s","c">>
s_cps     == <<"c","p","s">>
s_addenda == <<"a","d","d","e","n","d","a">>
s_mission == <<"m","i","s","s","i","o","n">>
s_loc     == <<"l","o","c">>
s_dossier == <<"d","o","s","s","i","e","r">>

\* read_file(f_path / name): the text, or EXPUNGED when the path is missing
read_file(f_model, name) ==
    IF name \in f_model.texts THEN PyStr(<<"t", "e", "x", "t">>)
    ELSE PyStr(EXPUNGED)

\* read_files(f_path / 'addenda') with no file list: os.listdir of the
\* directory, which raises when the directory is missing
read_files(f_model, name) ==
    IF name \in f_model.texts
    THEN Ok(PyDict(<< <<PyStr(<<"1">>), PyStr(<<"t", "e", "x", "t">>)>> >>))
    ELSE Raise("FileNotFoundError")

\* f_model.model_dump_json()
model_dump_json(f_model) ==
    PyStr(dumps(PyDict(<< <<PyStr(s_id), PyInt(f_model.id)>> >>)))

\* the 'files' dict access gathers for a record
files_of(f_model) ==
    LET item(name) == <<PyStr(name), read_file(f_model, name)>>
    IN  CASE f_model.f_type = s_SCP ->
               IF read_files(f_model, s_addenda).err # "none"
               THEN read_files(f_model, s_addenda)
               ELSE Ok(PyDict(<< item(s_desc), item(s_cps),
                                 <<PyStr(s_addenda),
                                   read_files(f_model, s_addenda).val>> >>))
          [] f_model.f_type = s_MTF -> Ok(PyDict(<< item(s_mission) >>))
          [] f_model.f_type = s_SITE ->
               Ok(PyDict(<< item(s_loc), item(s_desc), item(s_dossier) >>))
          [] OTHER -> Ok(PyDict(<<>>))

\* log_access(user.id, user_ip, success, details): the entry appended to
\* the audit trail
log_access(user_id, user_ip, success, details, f_type, f_id) ==
    [user_id |-> user_id, ip |-> user_ip, success |-> success,
     details |-> details, f_type |-> f_type, f_id |-> f_id]

\* what a call of access leaves behind: its result, the audit entries it
\* appended and the number of record lookups it made
Outcome(res, log, n) == [res |-> res, log |-> log, lookups |-> n]

-----------------------------------------------------------------------------
(* server/actions.py *)

access(f_type, f_id, usr, user_ip, records) ==
    LET entry(success, details) ==
            log_access(usr.id, user_ip, success, details, f_type, f_id)
    IN
    IF validate_f_type(f_type).err # "none"
    THEN Outcome(Raise(validate_f_type(f_type).err), <<>>, 0)
    ELSE IF validate_int(f_id, FALSE, FALSE) # "none"
    THEN Outcome(Raise(validate_int(f_id, FALSE, FALSE)), <<>>, 0)
    ELSE IF validate_ip(user_ip) # "none"
    THEN Outcome(Raise(validate_ip(user_ip)), <<>>, 0)
    \* Server.VALID_F_TYPES.get(f_type)
    ELSE IF ~(IsText(f_type) /\ f_type.v \in Range(VALID_F_TYPES))
    THEN Outcome(gen_access_type_fail(f_type),
                 <<entry(FALSE, "invalid file type")>>, 0)
    ELSE LET f_data == session_get(records, f_type.v, Num(f_id)) IN
    IF f_data = {}
    THEN \* the return is inside `with db_session()`, which turns every
         \* exception into DatabaseSessionError
         LET m == gen_access_expunged(f_type, f_id)
         IN  Outcome(IF m.err # "none" THEN Raise("DatabaseSessionError")
                     ELSE m,
                     <<entry(FALSE, "non-existent")>>, 1)
    ELSE LET f_model == CHOOSE r \in f_data : TRUE IN
    IF /\ f_model.f_type \in {s_SCP, s_USER}
       /\ usr.clearance_lvl < f_model.clearance_lvl
    THEN Outcome(gen_access_redacted(
                     PyStr(ClearanceName(usr.clearance_lvl)),
                     PyStr(CLEAR_LVL[usr.clearance_lvl + 1]),
                     PyStr(ClearanceName(f_model.clearance_lvl)),
                     PyStr(CLEAR_LVL[f_model.clearance_lvl + 1])),
                 <<entry(FALSE, "insufficient clearance")>>, 1)
    ELSE IF /\ f_model.f_type = s_SITE
            /\ (usr.clearance_lvl < 3 /\ usr.site_id # f_model.id)
    THEN Outcome(gen_access_redacted(
                     PyStr(ClearanceName(usr.clearance_lvl)),
                     PyStr(CLEAR_LVL[usr.clearance_lvl + 1]),
                     PyStr(ClearanceName(3)),
                     PyStr(CLEAR_LVL[3 + 1])),
                 <<entry(FALSE, "insufficient clearance")>>, 1)
    ELSE LET files == files_of(f_model) IN
    IF files.err # "none" THEN Outcome(Raise(files.err), <<>>, 1)
    ELSE LET result == gen_access_granted(
                 PyDict(<< <<PyStr(s_f_type), PyStr(f_model.f_type)>>,
                           <<PyStr(<<"f","_","m","o","d","e","l">>), model_dump_json(f_model)>>,
                           <<PyStr(<<"f","i","l","e","s">>), files.val>> >>))
         IN  IF result.err # "none" THEN Outcome(result, <<>>, 1)
             ELSE Outcome(result, <<entry(TRUE, "accessed")>>, 1)

-----------------------------------------------------------------------------
(* socket/transport.py: recv *)

Min(a, b) == IF a < b THEN a ELSE b

\* a size check that lets every length through
exceeds_max_never(msg_size) == FALSE

\* `if msg_size > SockConf.MAX_MSG_S`
exceeds_max(msg_size) == msg_size > MAX_MSG_S

\* max_chunks = msg_size // RCV_S + 1
max_chunks(msg_size) == msg_size \div RCV_S + 1

\* the payload a peer sends: the JSON text of a message, followed by as
\* many spaces as its header declares beyond that text
SampleBody ==
    str_encode(dumps(PyDict(<<
        <<PyStr(s_type), PyStr(AUTH_REQUEST)>>,
        <<PyStr(s_data), PyDict(<< <<PyStr(s_user_id), PyInt(7)>>,
                                   <<PyStr(s_password), PyStr(<<"p", "w">>)>> >>)>>
    >>)))

\* the first n bytes of that payload, the trailing spaces left out (loads
\* skips them)
PayloadPrefix(n) == PyBytes(SubSeq(SampleBody, 1, Min(n, Len(SampleBody))))

\* the statements after the `with` block, run on msg_size received bytes:
\* decode(data), then validate_msg(decoded, Message), a call with two
\* arguments of a function that takes one
recv_return(msg_size) ==
    LET decoded == decode(PayloadPrefix(msg_size))
    IN  IF decoded.err # "none" THEN Raise(decoded.err)
        ELSE Raise("TypeError")

-----------------------------------------------------------------------------
(* Inputs of the pure functions: message types and data drawn from small   *)
(* pools; a dict takes any subset of the schema's keys, of one key outside *)
(* the schema and of one key that is not a str, each with a value of the   *)
(* schema's type, and then with any one value replaced from ValPool.       *)

s_bogus == <<"b","o","g","u","s">>
s_extra == <<"e","x","t","r","a">>
s_quoted == <<"a", "\"", "\\", " ">>

d_record == PyDict(<< <<PyStr(s_id), PyInt(5)>>,
                      <<PyStr(s_extra), PyList(<<PyStr(s_quoted), PyNone>>)>> >>)

TypeInputs ==
    {PyEnum(m) : m \in MessageTypes}
    \cup {PyStr(AUTH_REQUEST), PyStr(s_bogus), PyInt(123), PyNone}

ValPool ==
    {PyInt(0 - 1), PyInt(173), PyBool(TRUE), PyNone,
     PyStr(s_SCP), PyStr(s_quoted), PyStr(<<>>),
     PyDict(<<>>), d_record, PyList(<<PyInt(1)>>)}

NonDicts == {PyNone, PyStr(s_SCP), PyList(<<PyInt(1), PyInt(2)>>), PyInt(123)}

\* the schema used to draw data for a type input: its own when it names a
\* member, AuthRequestData otherwise
SchemaOf(t) ==
    IF IsText(t) /\ t.v \in MessageTypes THEN format_map(t.v)
    ELSE AuthRequestData

GoodVal(hint) ==
    IF hint.generic THEN d_record
    ELSE IF hint.origin = "int" THEN PyInt(7)
    ELSE PyStr(<<"o","k">>)

\* the candidate items of a dict for schema sch, in order
ItemPool(sch) ==
    [i \in 1..Len(sch) |-> <<PyStr(sch[i][1]), GoodVal(sch[i][2])>>]
    \o << <<PyStr(s_extra), PyInt(1)>>, <<PyInt(1), PyStr(s_extra)>> >>

\* the subsequence of seq at the indices in idx, in order
RECURSIVE Pick(_, _, _)
Pick(seq, idx, i) ==
    IF i > Len(seq) THEN <<>>
    ELSE (IF i \in idx THEN <<seq[i]>> ELSE <<>>) \o Pick(seq, idx, i + 1)

DictInputs(sch) ==
    LET pool == ItemPool(sch)
        base == {Pick(pool, idx, 1) : idx \in SUBSET (1..Len(pool))}
        over(kv) == {[kv EXCEPT ![i] = <<kv[i][1], v>>] :
                        i \in DOMAIN kv, v \in ValPool}
    IN  {PyDict(kv) : kv \in base \cup UNION {over(kv) : kv \in base}}

DataInputs(t) == NonDicts \cup DictInputs(SchemaOf(t))

Shapes == {"no_type", "no_data", "extra_key", "int_key", "not_dict"}

\* the message a peer puts on the wire for an input
RawMsg(a) ==
    LET ty == <<PyStr(s_type), a.t>>
        da == <<PyStr(s_data), a.d>>
    IN  CASE a.shape = "exact"     -> PyDict(<<ty, da>>)
          [] a.shape = "no_type"   -> PyDict(<<da>>)
          [] a.shape = "no_data"   -> PyDict(<<ty>>)
          [] a.shape = "extra_key" -> PyDict(<<ty, da, <<PyStr(s_extra), PyInt(1)>> >>)
          [] a.shape = "int_key"   -> PyDict(<<ty, da, <<PyInt(1), PyInt(1)>> >>)
          [] a.shape = "not_dict"  -> PyList(<<a.t, a.d>>)

PureInputs ==
    {[t |-> t, d |-> d, shape |-> "exact"] :
        t \in TypeInputs, d \in UNION {DataInputs(u) : u \in TypeInputs}}
    \cup
    {[t |-> t, d |-> PyDict([i \in 1..Len(SchemaOf(t)) |-> ItemPool(SchemaOf(t))[i]]),
      shape |-> sh] : t \in TypeInputs, sh \in Shapes}

-----------------------------------------------------------------------------
(* What the claims call a valid message: a {type, data} mapping whose type *)
(* names a MessageTypes member and whose data has exactly the schema's     *)
(* keys, each with a value of the schema's type.                           *)

RECURSIVE JsonNative(_)
JsonNative(v) ==
    CASE v.k \in {"int", "bool", "none", "str", "enum"} -> TRUE
      [] v.k = "list" -> \A i \in DOMAIN v.v : JsonNative(v.v[i])
      [] v.k = "dict" -> \A i \in DOMAIN v.v :
                            v.v[i][1].k = "str" /\ JsonNative(v.v[i][2])
      [] OTHER -> FALSE

HasType(v, hint) ==
    IF hint.generic THEN v.k = "dict" /\ JsonNative(v)
    ELSE IsInstance(v, hint.origin)

Conforms(t, d) ==
    /\ IsText(t) /\ t.v \in MessageTypes
    /\ d.k = "dict"
    /\ \A i \in DOMAIN d.v : d.v[i][1].k = "str"
    /\ KeySet(d) = SchemaKeys(t.v)
    /\ \A i \in DOMAIN format_map(t.v) :
          HasType(Get(d, PyStr(format_map(t.v)[i][1])), format_map(t.v)[i][2])

ValidInput(a) == a.shape = "exact" /\ Conforms(a.t, a.d)

-----------------------------------------------------------------------------
(* The pure functions applied to an input *)

IdleAccess ==
    /\ user = [id |-> 0, clearance_lvl |-> 0, site_id |-> 0]
    /\ store = {} /\ req = <<>> /\ resp = NotRun
    /\ audit = <<>> /\ lookups = 0 /\ served = 0

IdlePure ==
    /\ arg = [t |-> PyNone, d |-> PyNone, shape |-> "idle"]
    /\ rGen = NotRun /\ rVal = NotRun /\ rRaw = NotRun
    /\ rEnc = NotRun /\ rDec = NotRun /\ rBody = NotRun

IdleRecv ==
    /\ conn = [header |-> <<>>, left |-> 0, trickle |-> 0, closes |-> TRUE]
    /\ rx = [pc |-> "idle", msg_size |-> 0, data_len |-> 0,
             chunk_count |-> 0, reads |-> 0]
    /\ rRecv = NotRun

IdleSock ==
    /\ sock = [timeout |-> PyNone, out |-> 0]
    /\ sarg = [op |-> "idle"] /\ rSock = NotRun

IdleAuth == accounts = {} /\ aarg = <<>> /\ rAuth = NotRun

IdleSess == sess = [pc |-> "idle"]

IdleDb == dbs = [pc |-> "idle"] /\ logger = [pc |-> "idle"]

InitPure ==
    /\ IdleAccess /\ IdleRecv /\ IdleSock /\ IdleAuth /\ IdleSess /\ IdleDb
    /\ arg \in PureInputs
    /\ rGen = NotRun /\ rVal = NotRun /\ rRaw = NotRun
    /\ rEnc = NotRun /\ rDec = NotRun /\ rBody = NotRun

\* gen_msg(t, d)
GenMsg ==
    /\ arg.shape = "exact" /\ rGen = NotRun
    /\ rGen' = gen_msg(arg.t, arg.d)
    /\ UNCHANGED <<arg, rVal, rRaw, rEnc, rDec, rBody, accessVars, recvVars, sockVars, authVars, sess, dbVars>>

\* validate_msg(gen_msg(t, d))
ValidateGen ==
    /\ rGen.err = "none" /\ rVal = NotRun
    /\ rVal' = validate_msg(rGen.val)
    /\ UNCHANGED <<arg, rGen, rRaw, rEnc, rDec, rBody, accessVars, recvVars, sockVars, authVars, sess, dbVars>>

\* validate_msg on a message as received
ValidateRaw ==
    /\ rRaw = NotRun
    /\ rRaw' = validate_msg(RawMsg(arg))
    /\ UNCHANGED <<arg, rGen, rVal, rEnc, rDec, rBody, accessVars, recvVars, sockVars, authVars, sess, dbVars>>

\* encode(m) for a valid message m
Encode ==
    /\ ValidInput(arg) /\ rEnc = NotRun
    /\ rEnc' = encode(RawMsg(arg))
    /\ UNCHANGED <<arg, rGen, rVal, rRaw, rDec, rBody, accessVars, recvVars, sockVars, authVars, sess, dbVars>>

\* decode(encode(m))
Decode ==
    /\ rEnc.err = "none" /\ rDec = NotRun
    /\ rDec' = decode(rEnc.val)
    /\ UNCHANGED <<arg, rGen, rVal, rRaw, rEnc, rBody, accessVars, recvVars, sockVars, authVars, sess, dbVars>>

\* decode of the bytes after the HEADER_S-byte header, which is what recv
\* hands to decode
DecodeBody ==
    /\ rEnc.err = "none" /\ rBody = NotRun
    /\ rBody' = decode(PyBytes(SubSeq(rEnc.val.v, HEADER_S + 1, Len(rEnc.val.v))))
    /\ UNCHANGED <<arg, rGen, rVal, rRaw, rEnc, rDec, accessVars, recvVars, sockVars, authVars, sess, dbVars>>

NextPure ==
    \/ GenMsg \/ ValidateGen \/ ValidateRaw
    \/ Encode \/ Decode \/ DecodeBody

SpecPure == InitPure /\ [][NextPure]_vars

-----------------------------------------------------------------------------
(* The access-control engine serving requests *)

MaxRequests == 2

peer_ip == PyStr(<<"1","0",".","0",".","0",".","9">>)

Users == [id : {7}, clearance_lvl : 1..6, site_id : {1, 2}]

\* a store with one record of each type under id 1 and a second Site, the
\* SCP and the User record requiring clearance R; has_texts tells whether
\* the texts of the records exist on disk
Store(R, has_texts) ==
    LET texts(names) == IF has_texts THEN names ELSE {}
    IN  { Record(s_SCP, 1, R, texts({s_desc, s_cps, s_addenda})),
          Record(s_USER, 1, R, {}),
          Record(s_MTF, 1, 0, texts({s_mission})),
          Record(s_SITE, 1, 0, texts({s_loc, s_desc, s_dossier})),
          Record(s_SITE, 2, 0, texts({s_loc, s_desc, s_dossier})) }

FTypeInputs ==
    {PyStr(VALID_F_TYPES[i]) : i \in DOMAIN VALID_F_TYPES}
        \cup {PyStr(<<"D","O","C">>), PyStr(<<"s","c","p">>)}

FIdInputs == {PyInt(0), PyInt(1), PyInt(3)}

InitAccess ==
    /\ user \in Users
    /\ \E R \in 1..6, has_texts \in BOOLEAN : store = Store(R, has_texts)
    /\ req = <<>> /\ resp = NotRun
    /\ audit = <<>> /\ lookups = 0 /\ served = 0
    /\ IdlePure /\ IdleRecv /\ IdleSock /\ IdleAuth /\ IdleSess /\ IdleDb

\* a call of access that takes the requester's clearance from the stored
\* row of the user, read again for this request
AccessStoredUser ==
    /\ served < MaxRequests
    /\ \E f_type \in FTypeInputs, f_id \in FIdInputs :
          LET own == session_get(store, s_USER, user.id)
              usr == IF own = {} THEN user
                     ELSE [user EXCEPT !.clearance_lvl =
                              (CHOOSE r \in own : TRUE).clearance_lvl]
              out == access(f_type, f_id, usr, peer_ip, store)
          IN  /\ req' = <<f_type, f_id>>
              /\ resp' = out.res
              /\ audit' = audit \o out.log
              /\ lookups' = lookups + out.lookups
    /\ served' = served + 1
    /\ UNCHANGED <<user, store, pureVars, recvVars, sockVars, authVars, sess, dbVars>>

\* one call access(f_type, f_id, user, user_ip) of the session of `user`
Access ==
    /\ served < MaxRequests
    /\ \E f_type \in FTypeInputs, f_id \in FIdInputs :
          LET out == access(f_type, f_id, user, peer_ip, store)
          IN  /\ req' = <<f_type, f_id>>
              /\ resp' = out.res
              /\ audit' = audit \o out.log
              /\ lookups' = lookups + out.lookups
    /\ served' = served + 1
    /\ UNCHANGED <<user, store, pureVars, recvVars, sockVars, authVars, sess, dbVars>>

NextAccess == Access

SpecAccess == InitAccess /\ [][NextAccess]_vars

-----------------------------------------------------------------------------
(* the requests of one session while the store changes under it            *)
(* (SpecAccessLive): `user` is the model auth_usr returned at line 44 of   *)
(* handle_usr, passed to every access call of the loop (lines 77-82)       *)

\* the stored row of the requester
OwnRow(clearance_lvl) == Record(s_USER, 7, clearance_lvl, {})

InitAccessLive ==
    /\ user \in Users
    /\ \E R \in 1..6, has_texts \in BOOLEAN :
          store = Store(R, has_texts) \cup {OwnRow(user.clearance_lvl)}
    /\ req = <<>> /\ resp = NotRun
    /\ audit = <<>> /\ lookups = 0 /\ served = 0
    /\ IdlePure /\ IdleRecv /\ IdleSock /\ IdleAuth /\ IdleSess /\ IdleDb

\* another session changes the store between the first and the second
\* request: the requester is promoted, demoted or removed, or a record is
\* removed or reclassified
ChangeStore ==
    /\ served = 1
    /\ \E own \in session_get(store, s_USER, 7) :
          \/ \E c \in {1, 6} : store' = (store \ {own}) \cup {OwnRow(c)}
          \/ store' = store \ {own}
          \/ store' = store \ session_get(store, s_SCP, 1)
          \/ \E r \in session_get(store, s_SCP, 1) :
                store' = (store \ {r}) \cup {[r EXCEPT !.clearance_lvl = 1]}
    /\ store' # store
    /\ UNCHANGED <<user, req, resp, audit, lookups, served, pureVars, recvVars, sockVars, authVars, sess, dbVars>>

NextAccessLive == Access \/ ChangeStore

SpecAccessLive == InitAccessLive /\ [][NextAccessLive]_vars

-----------------------------------------------------------------------------
(* recv reading one frame from a connection *)

MaxTrickle == 2

\* the lengths a header declares (a header holds up to 2^32 - 1; 2^31 - 1
\* is the largest integer TLC computes with)
DeclaredSizes ==
    {0, 1, Len(SampleBody), RCV_S, RCV_S + 1, MAX_MSG_S, MAX_MSG_S + 1,
     2147483647}

\* a peer: the bytes the first conn.recv returns (the header or a part of
\* it), the payload bytes it sends before it stops, the number of times it
\* delivers a single byte instead of all that is asked for, and whether it
\* closes the connection or stalls once it has stopped
Peers ==
    UNION {
      { [header |-> SubSeq(pack(size), 1, n), left |-> left,
         trickle |-> trickle, closes |-> closes] :
          n \in (IF size = 1 THEN 0..HEADER_S ELSE {HEADER_S}),
          left \in {0, size} \cup (IF size > 0 THEN {size - 1} ELSE {}),
          trickle \in 0..MaxTrickle,
          closes \in BOOLEAN }
      : size \in DeclaredSizes }

InitRecv ==
    /\ conn \in Peers
    /\ rx = [pc |-> "header", msg_size |-> 0, data_len |-> 0,
             chunk_count |-> 0, reads |-> 0]
    /\ rRecv = NotRun
    /\ IdlePure /\ IdleAccess /\ IdleSock /\ IdleAuth /\ IdleSess /\ IdleDb

\* recv is left with result r
Leave(r, reads) ==
    /\ rRecv' = r
    /\ rx' = [rx EXCEPT !.pc = "done", !.reads = reads]

\* header = conn.recv(HEADER_S) returns, and recv runs to its next read
RecvHeader ==
    /\ rx.pc = "header"
    /\ LET header == conn.header IN
       IF header = <<>> \/ Len(header) # HEADER_S
       THEN Leave(Raise("ConnectionError"), rx.reads + 1)
       ELSE LET msg_size == unpack(header) IN
            IF exceeds_max(msg_size)
            THEN Leave(Raise("MaxSizeLimitError"), rx.reads + 1)
            ELSE IF msg_size = 0
            THEN Leave(recv_return(msg_size), rx.reads + 1)
            ELSE /\ rx' = [rx EXCEPT !.pc = "payload", !.msg_size = msg_size,
                                     !.reads = rx.reads + 1]
                 /\ UNCHANGED rRecv
    /\ UNCHANGED <<conn, pureVars, accessVars, sockVars, authVars, sess, dbVars>>

\* buff = conn.recv(min(RCV_S, remaining)) returns n > 0 bytes, and recv
\* runs to its next read
RecvChunk ==
    /\ rx.pc = "payload" /\ conn.left > 0
    /\ \E short \in BOOLEAN :
          LET asked == Min(RCV_S, rx.msg_size - rx.data_len)
              n     == IF short THEN 1 ELSE Min(asked, conn.left)
              size  == rx.data_len + n
              count == rx.chunk_count + 1
          IN  /\ short => conn.trickle > 0 /\ asked > 1
              /\ conn' = [conn EXCEPT !.left = conn.left - n,
                            !.trickle = IF short THEN conn.trickle - 1
                                        ELSE conn.trickle]
              /\ IF ~(size < rx.msg_size)
                 THEN /\ rRecv' = recv_return(rx.msg_size)
                      /\ rx' = [rx EXCEPT !.pc = "done", !.data_len = size,
                                  !.chunk_count = count,
                                  !.reads = rx.reads + 1]
                 ELSE IF count > max_chunks(rx.msg_size)
                 THEN /\ rRecv' = Raise("ConnectionError")
                      /\ rx' = [rx EXCEPT !.pc = "done", !.data_len = size,
                                  !.chunk_count = count,
                                  !.reads = rx.reads + 1]
                 ELSE /\ UNCHANGED rRecv
                      /\ rx' = [rx EXCEPT !.data_len = size,
                                  !.chunk_count = count,
                                  !.reads = rx.reads + 1]
    /\ UNCHANGED <<pureVars, accessVars, sockVars, authVars, sess, dbVars>>

\* an empty buff that is not looked at: recv asks again
RecvClosedIgnored ==
    /\ rx.pc = "payload" /\ conn.left = 0 /\ conn.closes
    /\ rx.reads < 4
    /\ rx' = [rx EXCEPT !.reads = rx.reads + 1,
                        !.chunk_count = rx.chunk_count + 1]
    /\ UNCHANGED <<conn, rRecv, pureVars, accessVars, sockVars, authVars, sess, dbVars>>

\* conn.recv returns b'': the peer has closed the connection
RecvClosed ==
    /\ rx.pc = "payload" /\ conn.left = 0 /\ conn.closes
    /\ Leave(Raise("ConnectionAbortedError"), rx.reads + 1)
    /\ UNCHANGED <<conn, pureVars, accessVars, sockVars, authVars, sess, dbVars>>

\* conn.recv times out: the context manager raises ConnectionError for it
RecvTimeout ==
    /\ rx.pc = "payload" /\ conn.left = 0 /\ ~conn.closes
    /\ Leave(Raise("ConnectionError"), rx.reads + 1)
    /\ UNCHANGED <<conn, pureVars, accessVars, sockVars, authVars, sess, dbVars>>

NextRecv == RecvHeader \/ RecvChunk \/ RecvClosed \/ RecvTimeout

SpecRecv == InitRecv /\ [][NextRecv]_vars

-----------------------------------------------------------------------------
(* socket/helpers.py and socket/transport.py: encode on long payloads,     *)
(* send, and the connection probes (SpecSock)                              *)

DEF_TIMEOUT == 60
TMP_TIMEOUT == 2

TEST_MSG == <<1, 2, 3, 4>>
ACK_MSG  == <<4, 3, 2, 1>>
TEST_S   == Len(TEST_MSG)

\* lengths beyond the checker's integers are counted in two limbs:
\* hi * Limb + lo bytes, with lo < Limb
Limb == 2^30

\* encode on data whose JSON text is pad.hi * Limb + pad.lo bytes longer
\* than dumps(data) (a str inside it holds that many more ASCII characters):
\* validate_data, dumps(data).encode(), pack('!I', len(encoded_data)), which
\* raises struct.error from 2^32 = 4 * Limb on, and then the size check.
\* A returned frame is described by its header and its length.
encode_sized(data, pad) ==
    IF validate_data(data) # "none" THEN Raise(validate_data(data))
    ELSE LET lo == Len(str_encode(dumps(data))) + pad.lo
         IN  IF pad.hi >= 4 THEN Raise("struct.error")
             ELSE IF pad.hi >= 1 \/ HEADER_S + lo > MAX_MSG_S
                  THEN Raise("MaxSizeLimitError")
             ELSE Ok([k |-> "frame", header |-> pack(lo),
                      size |-> HEADER_S + lo])

\* validate_conn: "none" when conn is a socket.socket
validate_conn(is_socket) == IF is_socket THEN "none" ELSE "TypeError"

\* the exceptions of the with-block that are instances of ConnectionError
ConnectionErrors == {"ConnectionError", "BrokenPipeError", "ConnectionResetError"}

\* socket_context_manager(message, conn, short_timeout) around a block that
\* ends with body_err ("none" when it runs to its end) on a socket whose
\* timeout was `timeout`: the error that leaves the with statement, the
\* timeout left on the socket, and whether the block was entered
socket_context_manager(is_socket, short_timeout, timeout, body_err) ==
    IF validate_conn(is_socket) # "none"
    THEN [err |-> validate_conn(is_socket), timeout |-> timeout, entered |-> FALSE]
    ELSE [err |-> IF body_err = "none" \/ body_err \in ConnectionErrors
                  THEN body_err ELSE "ConnectionError",
          timeout |-> IF short_timeout THEN PyInt(DEF_TIMEOUT) ELSE timeout,
          entered |-> TRUE]

\* conn.sendall(data) of n bytes on a wire that fails with wire.err after
\* wire.sent bytes ("none": never): the error and the bytes handed over
sendall(n, wire) ==
    IF wire.err = "none" THEN [err |-> "none", out |-> n]
    ELSE [err |-> wire.err, out |-> Min(wire.sent, n)]

\* send without the call of gen_msg: whatever data is given is encoded
send_unchecked(is_socket, msg_type, msg_data, pad, wire) ==
    LET data == encode_sized(PyDict(<< <<PyStr(s_type), msg_type>>,
                                       <<PyStr(s_data), msg_data>> >>), pad)
    IN  IF data.err # "none" THEN [err |-> data.err, out |-> 0]
        ELSE LET w == sendall(data.val.size, wire)
                 m == socket_context_manager(is_socket, FALSE, PyNone, w.err)
             IN  [err |-> m.err, out |-> IF m.entered THEN w.out ELSE 0]

\* send(conn, msg_type, msg_data): data = encode(gen_msg(msg_type, msg_data))
\* and then conn.sendall(data) inside socket_context_manager; the error
\* ("none" when it returns) and the bytes handed to the connection
send(is_socket, msg_type, msg_data, pad, wire) ==
    LET msg == gen_msg(msg_type, msg_data)
    IN  IF msg.err # "none" THEN [err |-> msg.err, out |-> 0]
        ELSE LET data == encode_sized(msg.val, pad)
             IN  IF data.err # "none" THEN [err |-> data.err, out |-> 0]
                 ELSE LET w == sendall(data.val.size, wire)
                          m == socket_context_manager(is_socket, FALSE,
                                                      PyNone, w.err)
                      IN  [err |-> m.err,
                           out |-> IF m.entered THEN w.out ELSE 0]

\* the with-block of test_send: sendall(TEST_MSG), recv(TEST_S), and the
\* comparison with ACK_MSG; peer.reply is what recv returns, or the name of
\* the exception it raises
test_send_body(wire, peer) ==
    LET w == sendall(Len(TEST_MSG), wire)
    IN  IF w.err # "none" THEN w
        ELSE IF peer.raises # "none" THEN [err |-> peer.raises, out |-> w.out]
        ELSE IF peer.reply # ACK_MSG THEN [err |-> "ConnectionError", out |-> w.out]
        ELSE [err |-> "none", out |-> w.out]

\* the with-block of test_recv: recv(TEST_S), the comparison with TEST_MSG,
\* and sendall(ACK_MSG)
test_recv_body(wire, peer) ==
    IF peer.raises # "none" THEN [err |-> peer.raises, out |-> 0]
    ELSE IF peer.reply # TEST_MSG THEN [err |-> "ConnectionError", out |-> 0]
    ELSE sendall(Len(ACK_MSG), wire)

\* test_send(conn) / test_recv(conn): the block inside
\* socket_context_manager('Connection test failed', conn, True)
probe(body, is_socket, timeout) ==
    LET m == socket_context_manager(is_socket, TRUE, timeout, body.err)
    IN  [err |-> m.err, timeout |-> m.timeout,
         out |-> IF m.entered THEN body.out ELSE 0]

test_send(is_socket, timeout, wire, peer) ==
    probe(test_send_body(wire, peer), is_socket, timeout)

test_recv(is_socket, timeout, wire, peer) ==
    probe(test_recv_body(wire, peer), is_socket, timeout)

(* inputs *)

Wires == {[err |-> "none", sent |-> 0]}
         \cup [err : {"OSError", "BrokenPipeError"}, sent : {0, 1}]

ProbePeers == [raises : {"none"}, reply : {ACK_MSG, TEST_MSG, <<4, 3>>, <<>>}]
              \cup [raises : {"TimeoutError", "ConnectionResetError"}, reply : {<<>>}]

\* socket.gettimeout(): None on a blocking socket (one returned by accept),
\* the default after gen_socket_conn, or what a caller has set
Timeouts == {PyNone, PyInt(DEF_TIMEOUT), PyInt(TMP_TIMEOUT), PyInt(5)}

\* paddings that bring the frame of data to the maximum, next to it, and
\* past the range of the length header
Pads(data) ==
    LET n == HEADER_S + Len(str_encode(dumps(data)))
    IN  {[hi |-> 0, lo |-> 0], [hi |-> 1, lo |-> 0], [hi |-> 3, lo |-> Limb - n],
         [hi |-> 4, lo |-> 0]}
        \cup {[hi |-> 0, lo |-> MAX_MSG_S - n + d] : d \in {0 - 1, 0, 1, HEADER_S}}

EncodeData == {PyNone, PyStr(<<>>), PyInt(5), PyStr(s_SCP), d_record,
               PyList(<<PyInt(1)>>)}

SendTypes == {PyEnum(AUTH_FAILED), PyEnum(AUTH_REQUEST), PyEnum(ACCESS_GRANTED),
              PyStr(s_bogus)}

SendData(t) ==
    LET sch == SchemaOf(t)
    IN  {PyDict(SubSeq(ItemPool(sch), 1, Len(sch))), PyDict(ItemPool(sch)),
         PyDict(<<>>), PyNone}

Envelope(t, d) == PyDict(<< <<PyStr(s_type), t>>, <<PyStr(s_data), d>> >>)

SockInputs ==
    UNION {{[op |-> "encode", data |-> d, pad |-> p] : p \in Pads(d)}
           : d \in EncodeData}
    \cup UNION {UNION {{[op |-> "send", is_socket |-> c, t |-> t, d |-> d,
                         pad |-> p, wire |-> w]
                        : p \in Pads(Envelope(t, d)), w \in Wires, c \in BOOLEAN}
                       : d \in SendData(t)} : t \in SendTypes}
    \cup [op : {"test_send", "test_recv"}, is_socket : BOOLEAN,
          wire : Wires, peer : ProbePeers]

InitSock ==
    /\ IdlePure /\ IdleAccess /\ IdleRecv /\ IdleAuth /\ IdleSess /\ IdleDb
    /\ sarg \in SockInputs
    /\ sock \in [timeout : Timeouts, out : {0}]
    /\ rSock = NotRun

EncodeSized ==
    /\ sarg.op = "encode" /\ rSock = NotRun
    /\ rSock' = encode_sized(sarg.data, sarg.pad)
    /\ UNCHANGED <<sock, sarg, pureVars, accessVars, recvVars, authVars, sess, dbVars>>

Send ==
    /\ sarg.op = "send" /\ rSock = NotRun
    /\ LET r == send(sarg.is_socket, sarg.t, sarg.d, sarg.pad, sarg.wire)
       IN  /\ rSock' = [err |-> r.err, val |-> PyNone]
           /\ sock' = [sock EXCEPT !.out = r.out]
    /\ UNCHANGED <<sarg, pureVars, accessVars, recvVars, authVars, sess, dbVars>>

TestSend ==
    /\ sarg.op = "test_send" /\ rSock = NotRun
    /\ LET r == test_send(sarg.is_socket, sock.timeout, sarg.wire, sarg.peer)
       IN  /\ rSock' = [err |-> r.err, val |-> PyNone]
           /\ sock' = [timeout |-> r.timeout, out |-> r.out]
    /\ UNCHANGED <<sarg, pureVars, accessVars, recvVars, authVars, sess, dbVars>>

TestRecv ==
    /\ sarg.op = "test_recv" /\ rSock = NotRun
    /\ LET r == test_recv(sarg.is_socket, sock.timeout, sarg.wire, sarg.peer)
       IN  /\ rSock' = [err |-> r.err, val |-> PyNone]
           /\ sock' = [timeout |-> r.timeout, out |-> r.out]
    /\ UNCHANGED <<sarg, pureVars, accessVars, recvVars, authVars, sess, dbVars>>

NextSock == EncodeSized \/ Send \/ TestSend \/ TestRecv

SpecSock == InitSock /\ [][NextSock]_vars

-----------------------------------------------------------------------------
(* server/basic.py: auth_usr against the stored users (SpecAuth) *)

s_right == <<"r","i","g","h","t">>
s_wrong == <<"w","r","o","n","g">>

\* werkzeug's generate_password_hash: a method prefix and a digest that
\* differs from the password (each character moved by its position)
generate_password_hash(password) ==
    <<"h", "$">> \o [i \in DOMAIN password |->
                       Chr(32 + ((Ord(password[i]) - 32 + 7 * i) % 95))]

\* werkzeug's check_password_hash(pwhash, password)
check_password_hash(pwhash, password) ==
    pwhash = generate_password_hash(password)

\* a row of the users table; the password column holds the hash
UserRow(id, password) ==
    [id |-> id, password |-> generate_password_hash(password)]

\* orm_to_pydantic(user)
orm_to_pydantic(orm_obj) == [k |-> "User", v |-> orm_obj.id]

\* auth_usr comparing the stored column with the password itself
auth_usr_unhashed(user_id, password, users) ==
    IF validate_int(user_id, TRUE, TRUE) # "none"
    THEN Raise(validate_int(user_id, TRUE, TRUE))
    ELSE IF validate_str(password) # "none" THEN Raise(validate_str(password))
    ELSE LET found == {u \in users : u.id = Num(user_id)} IN
         IF found = {} THEN Ok(<<PyStr(s_user_id), PyNone>>)
         ELSE LET usr == CHOOSE u \in found : TRUE IN
              IF usr.password # password.v
              THEN Ok(<<PyStr(s_password), PyNone>>)
              ELSE Ok(<<PyNone, orm_to_pydantic(usr)>>)

\* auth_usr(user_id, password) on the users table `users`: the pair it
\* returns, or the exception it raises
auth_usr(user_id, password, users) ==
    IF validate_int(user_id, TRUE, TRUE) # "none"
    THEN Raise(validate_int(user_id, TRUE, TRUE))
    ELSE IF validate_str(password) # "none" THEN Raise(validate_str(password))
    ELSE \* session.get(ORMModels.User, user_id)
         LET found == {u \in users : u.id = Num(user_id)} IN
         IF found = {} THEN Ok(<<PyStr(s_user_id), PyNone>>)
         ELSE LET usr == CHOOSE u \in found : TRUE IN
              IF ~check_password_hash(usr.password, password.v)
              THEN Ok(<<PyStr(s_password), PyNone>>)
              ELSE Ok(<<PyNone, orm_to_pydantic(usr)>>)

(* inputs *)

\* the password each stored user was registered with
Registered == (5 :> s_right) @@ (6 :> <<" ">>) @@ (8 :> <<"p", "w">>)

UserIdInputs == {PyInt(5), PyInt(6), PyInt(9), PyInt(0), PyInt(0 - 5),
                 PyStr(<<"5">>), PyNone}

PasswordInputs == {PyStr(s_right), PyStr(s_wrong), PyStr(<<" ">>),
                   PyStr(<<" ", "\t">>), PyStr(<<>>),
                   PyStr(generate_password_hash(s_right)), PyInt(5), PyNone}

InitAuth ==
    /\ IdlePure /\ IdleAccess /\ IdleRecv /\ IdleSock /\ IdleSess /\ IdleDb
    /\ \E ids \in SUBSET DOMAIN Registered :
          accounts = {UserRow(i, Registered[i]) : i \in ids}
    /\ aarg \in UserIdInputs \X PasswordInputs
    /\ rAuth = NotRun

\* one call auth_usr(user_id, password); it writes nothing
AuthUsr ==
    /\ rAuth = NotRun
    /\ rAuth' = auth_usr(aarg[1], aarg[2], accounts)
    /\ UNCHANGED <<accounts, aarg, pureVars, accessVars, recvVars, sockVars, sess, dbVars>>

NextAuth == AuthUsr

SpecAuth == InitAuth /\ [][NextAuth]_vars

-----------------------------------------------------------------------------
(* server/main.py: handle_usr on one client connection (SpecSession)       *)

\* `validate_msg(recv(client), AuthRequest)` and
\* `validate_msg(recv(client), AccessRequest)`: recv raises, or its message
\* is passed with a second argument to validate_msg, which takes one
validated_recv(r) == IF r.err # "none" THEN r ELSE Raise("TypeError")

\* the exception handle_usr is left with ("none": it returns) once the recv
\* of line 42 (pc "auth") or of line 71 (pc "loop", whose
\* ConnectionAbortedError is caught and breaks the loop) has ended with r.
\* validated_recv never returns a message, so the calls of auth_usr, send
\* and access that follow are reached from neither place.
handle_usr_exit(pc, r) ==
    IF pc = "loop" /\ validated_recv(r).err = "ConnectionAbortedError"
    THEN "none"
    ELSE validated_recv(r).err

InitSession ==
    /\ IdlePure /\ IdleAccess /\ IdleSock /\ IdleDb
    /\ conn \in Peers
    /\ rx = [pc |-> "header", msg_size |-> 0, data_len |-> 0,
             chunk_count |-> 0, reads |-> 0]
    /\ rRecv = NotRun
    /\ accounts = {UserRow(7, <<"p", "w">>)} /\ aarg = <<>> /\ rAuth = NotRun
    /\ sess = [pc |-> "auth", closed |-> FALSE, err |-> "none",
               sent |-> <<>>, answered |-> 0, reads |-> 0]

\* recv has ended and the statements after it run, but the finally block
\* is skipped
HandleUsrLeak ==
    /\ sess.pc \in {"auth", "loop"} /\ rx.pc = "done"
    /\ sess' = [sess EXCEPT !.pc = "ended",
                            !.err = handle_usr_exit(sess.pc, rRecv),
                            !.reads = rx.reads]
    /\ UNCHANGED <<pureVars, accessVars, recvVars, sockVars, authVars, dbVars>>

\* recv has ended: handle_usr runs from there to its end, through the
\* finally block and its client.close()
HandleUsr ==
    /\ sess.pc \in {"auth", "loop"} /\ rx.pc = "done"
    /\ sess' = [sess EXCEPT !.pc = "ended",
                            !.err = handle_usr_exit(sess.pc, rRecv),
                            !.closed = TRUE,
                            !.reads = rx.reads]
    /\ UNCHANGED <<pureVars, accessVars, recvVars, sockVars, authVars, dbVars>>

NextSession == RecvHeader \/ RecvChunk \/ RecvClosed \/ RecvTimeout \/ HandleUsr

SpecSession == InitSession /\ [][NextSession]_vars

\* handle_usr taken at the head of its request loop (line 67), where it
\* stands once AUTH_SUCCESS has been sent, about to call recv
InitLoop ==
    /\ IdlePure /\ IdleAccess /\ IdleSock /\ IdleDb
    /\ conn \in Peers
    /\ rx = [pc |-> "header", msg_size |-> 0, data_len |-> 0,
             chunk_count |-> 0, reads |-> 0]
    /\ rRecv = NotRun
    /\ accounts = {UserRow(7, <<"p", "w">>)} /\ aarg = <<>> /\ rAuth = NotRun
    /\ sess = [pc |-> "loop", closed |-> FALSE, err |-> "none",
               sent |-> <<PyEnum(AUTH_SUCCESS)>>, answered |-> 0, reads |-> 0]

SpecLoop == InitLoop /\ [][NextSession]_vars

\* the request loop with the client of client/actions.py at the other end
\* (SpecServe): a peer that has sent one whole frame and keeps the
\* connection open is that client, waiting in its recv for the response
WholeFrame(c) ==
    /\ Len(c.header) = HEADER_S
    /\ c.left = unpack(c.header)
    /\ ~c.closes

\* the peers of the loop: an access request is a short frame, and no peer
\* here has more than a read and a byte of payload to deliver
ServePeers == {c \in Peers : c.left <= RCV_S + 1}

InitServe ==
    /\ IdlePure /\ IdleAccess /\ IdleSock /\ IdleDb
    /\ conn \in ServePeers
    /\ rx = [pc |-> "header", msg_size |-> 0, data_len |-> 0,
             chunk_count |-> 0, reads |-> 0]
    /\ rRecv = NotRun
    /\ accounts = {UserRow(7, <<"p", "w">>)} /\ aarg = <<>> /\ rAuth = NotRun
    /\ sess = [pc |-> "loop", closed |-> FALSE, err |-> "none",
               sent |-> <<PyEnum(AUTH_SUCCESS)>>, answered |-> 0, reads |-> 0,
               client |-> IF WholeFrame(conn) THEN "waiting" ELSE "absent"]

\* the client's recv(server) returns: a response has been sent, or the
\* handler has closed the socket and conn.recv gives b''
ClientRecv ==
    /\ sess.client = "waiting"
    /\ sess.closed \/ Len(sess.sent) > 1
    /\ sess' = [sess EXCEPT !.client = "ended"]
    /\ UNCHANGED <<pureVars, accessVars, recvVars, sockVars, authVars, dbVars>>

NextServe == NextSession \/ ClientRecv

\* the handler's thread and the client run whenever they can, bytes that
\* were sent arrive and a close is seen; the accepted socket has no timeout
\* (main.py:109), so nothing makes a read on a stalled peer return
\* RecvChunk can be taken exactly when recv is reading the payload and
\* the peer has bytes under way
ChunkUnderWay == rx.pc = "payload" /\ conn.left > 0

\* weak fairness of RecvChunk, written out on its guard
FairChunk == []<>(~ChunkUnderWay) \/ []<><<RecvChunk>>_vars

FairServe ==
    /\ WF_vars(RecvHeader) /\ FairChunk /\ WF_vars(RecvClosed)
    /\ WF_vars(HandleUsr) /\ WF_vars(ClientRecv)

SpecServe == InitServe /\ [][NextServe]_vars /\ FairServe

-----------------------------------------------------------------------------
(* socket/builders.py: the builders of the requests and of the             *)
(* authentication responses, and every builder on drawn arguments          *)
(* (SpecBuild)                                                             *)

gen_auth_request(user_id, password) ==
    IF validate_int(user_id, TRUE, TRUE) # "none"
    THEN Raise(validate_int(user_id, TRUE, TRUE))
    ELSE IF validate_str(password) # "none" THEN Raise(validate_str(password))
    ELSE gen_msg(PyEnum(AUTH_REQUEST),
            PyDict(<< <<PyStr(s_user_id), user_id>>,
                      <<PyStr(s_password), password>> >>))

gen_auth_failed(field) ==
    IF validate_str(field) # "none" THEN Raise(validate_str(field))
    ELSE gen_msg(PyEnum(AUTH_FAILED), PyDict(<< <<PyStr(s_field), field>> >>))

\* gen_auth_success(user), on user.model_dump()
gen_auth_success(user_dump) ==
    IF validate_dict(user_dump, <<>>) # "none"
    THEN Raise(validate_dict(user_dump, <<>>))
    ELSE gen_msg(PyEnum(AUTH_SUCCESS), PyDict(<< <<PyStr(s_user), user_dump>> >>))

gen_access_request(f_type, f_id) ==
    IF validate_str(f_type) # "none" THEN Raise(validate_str(f_type))
    ELSE IF validate_int(f_id, TRUE, TRUE) # "none"
         THEN Raise(validate_int(f_id, TRUE, TRUE))
    ELSE gen_msg(PyEnum(ACCESS_REQUEST),
            PyDict(<< <<PyStr(s_f_type), f_type>>, <<PyStr(s_f_id), f_id>> >>))

\* the builders by name (the `Msg` namespace), applied to a tuple of
\* arguments
Builders ==
    {"auth_request", "auth_failed", "auth_success", "access_request",
     "access_type_fail", "access_redacted", "access_expunged",
     "access_granted"}

Arity(name) ==
    CASE name \in {"auth_request", "access_request", "access_expunged"} -> 2
      [] name = "access_redacted" -> 4
      [] OTHER -> 1

Msg(name, a) ==
    CASE name = "auth_request"     -> gen_auth_request(a[1], a[2])
      [] name = "auth_failed"      -> gen_auth_failed(a[1])
      [] name = "auth_success"     -> gen_auth_success(a[1])
      [] name = "access_request"   -> gen_access_request(a[1], a[2])
      [] name = "access_type_fail" -> gen_access_type_fail(a[1])
      [] name = "access_redacted"  -> gen_access_redacted(a[1], a[2], a[3], a[4])
      [] name = "access_expunged"  -> gen_access_expunged(a[1], a[2])
      [] name = "access_granted"   -> gen_access_granted(a[1])

ArgPool ==
    {PyStr(s_SCP), PyStr(<<>>), PyStr(<<" ", " ">>),
     PyStr(<<"#", "0", "0", "a", "F", "9", "1">>),
     PyStr(<<"#", "0", "0", "a", "F", "9">>),
     PyStr(<<"#", "0", "0", "a", "G", "9", "1">>),
     PyInt(7), PyInt(0), PyInt(0 - 3),
     d_record, PyDict(<< <<PyStr(s_file), d_record>> >>)}

InitBuild ==
    /\ IdleAccess /\ IdleRecv /\ IdleSock /\ IdleAuth /\ IdleSess /\ IdleDb
    /\ \E name \in Builders :
          \E a \in [1..Arity(name) -> ArgPool] :
              arg = [t |-> PyNone, d |-> PyList(a), shape |-> name]
    /\ rGen = NotRun /\ rVal = NotRun /\ rRaw = NotRun
    /\ rEnc = NotRun /\ rDec = NotRun /\ rBody = NotRun

\* one call of a builder
Build ==
    /\ arg.shape \in Builders /\ rGen = NotRun
    /\ rGen' = Msg(arg.shape, arg.d.v)
    /\ UNCHANGED <<arg, rVal, rRaw, rEnc, rDec, rBody, accessVars, recvVars, sockVars, authVars, sess, dbVars>>

NextBuild == Build

SpecBuild == InitBuild /\ [][NextBuild]_vars

-----------------------------------------------------------------------------
(* sql/core/session.py: one use of `with db_session() as session` (SpecDb) *)

\* how the statements of one use end: whether Session() returns a session,
\* how the body of the with statement ends ("ends", "returns" for an early
\* return, or the name of the exception it raises), and whether
\* session.commit() succeeds
DbUses ==
    [create_ok : BOOLEAN,
     body : {"ends", "returns", "ValueError", "IntegrityError",
             "DatabaseSessionError", "FileNotFoundError"},
     commit_ok : BOOLEAN]

InitDb ==
    /\ IdlePure /\ IdleAccess /\ IdleRecv /\ IdleSock /\ IdleAuth /\ IdleSess
    /\ logger = [pc |-> "idle"]
    /\ \E u \in DbUses :
          dbs = [pc |-> "start", use |-> u, session |-> FALSE,
                 trace |-> <<>>, exc |-> "none", err |-> "none"]

\* session = Session()
DbEnter ==
    /\ dbs.pc = "start"
    /\ dbs' = IF dbs.use.create_ok
              THEN [dbs EXCEPT !.pc = "body", !.session = TRUE]
              ELSE [dbs EXCEPT !.pc = "except", !.exc = "OperationalError"]
    /\ UNCHANGED <<pureVars, accessVars, recvVars, sockVars, authVars, sess, logger>>

\* yield session: the body of the with statement runs; when it ends or
\* returns the generator goes on after the yield, when it raises the
\* exception is thrown into the generator
DbBody ==
    /\ dbs.pc = "body"
    /\ dbs' = IF dbs.use.body \in {"ends", "returns"}
              THEN [dbs EXCEPT !.pc = "commit"]
              ELSE [dbs EXCEPT !.pc = "except", !.exc = dbs.use.body]
    /\ UNCHANGED <<pureVars, accessVars, recvVars, sockVars, authVars, sess, logger>>

\* session.commit()
DbCommit ==
    /\ dbs.pc = "commit"
    /\ dbs' = IF dbs.use.commit_ok
              THEN [dbs EXCEPT !.pc = "finally",
                               !.trace = Append(dbs.trace, "commit")]
              ELSE [dbs EXCEPT !.pc = "except", !.exc = "OperationalError",
                               !.trace = Append(dbs.trace, "commit failed")]
    /\ UNCHANGED <<pureVars, accessVars, recvVars, sockVars, authVars, sess, logger>>

\* an except clause that rolls back and lets the with statement end
\* without an error
DbExceptSwallowed ==
    /\ dbs.pc = "except"
    /\ dbs' = [dbs EXCEPT !.pc = "finally",
                 !.trace = IF dbs.session THEN Append(dbs.trace, "rollback")
                           ELSE dbs.trace]
    /\ UNCHANGED <<pureVars, accessVars, recvVars, sockVars, authVars, sess, logger>>

\* except Exception as e: rollback if the session exists, then
\* raise DatabaseSessionError(...) from e
DbExcept ==
    /\ dbs.pc = "except"
    /\ dbs' = [dbs EXCEPT !.pc = "finally",
                 !.trace = IF dbs.session THEN Append(dbs.trace, "rollback")
                           ELSE dbs.trace,
                 !.err = "DatabaseSessionError"]
    /\ UNCHANGED <<pureVars, accessVars, recvVars, sockVars, authVars, sess, logger>>

\* finally: close the session if it exists
DbFinally ==
    /\ dbs.pc = "finally"
    /\ dbs' = [dbs EXCEPT !.pc = "done",
                 !.trace = IF dbs.session THEN Append(dbs.trace, "close")
                           ELSE dbs.trace]
    /\ UNCHANGED <<pureVars, accessVars, recvVars, sockVars, authVars, sess, logger>>

NextDb == DbEnter \/ DbBody \/ DbCommit \/ DbExcept \/ DbFinally

SpecDb == InitDb /\ [][NextDb]_vars

-----------------------------------------------------------------------------
(* sql/queries.py: log_event called from concurrent sessions (SpecLog)     *)

MaxCalls == 2

\* the server threads that log; each has its own session (scoped_session)
LogThreads == {1, 2}

\* the AuditLog row of call n of thread t
AuditRow(t, n, user_ip, status) ==
    [user_id |-> t, call |-> n, user_ip |-> user_ip, status |-> status]

\* the validation at the head of log_event, on the arguments that vary here
\* (ip_address(user_ip) accepts the peer address and refuses other text)
log_event_check(user_ip) ==
    IF validate_str(user_ip) # "none" THEN validate_str(user_ip)
    ELSE IF user_ip # peer_ip THEN "ValueError"
    ELSE "none"

LogIps == {peer_ip, PyStr(<<"n", "o">>), PyStr(<<>>), PyInt(1)}

InitLog ==
    /\ IdlePure /\ IdleAccess /\ IdleRecv /\ IdleSock /\ IdleAuth /\ IdleSess
    /\ dbs = [pc |-> "idle"]
    /\ logger = [pc |-> "run", table |-> <<>>,
                 th |-> [t \in LogThreads |->
                           [pc |-> "idle", call |-> 0, pending |-> <<>>,
                            returned |-> {}, raised |-> {}]]]

\* thread t calls log_event: the arguments are validated, the row is built
\* and session.add(row) puts it into the thread's session
LogAdd(t) ==
    /\ logger.pc = "run" /\ logger.th[t].pc = "idle"
    /\ logger.th[t].call < MaxCalls
    /\ \E user_ip \in LogIps, status \in BOOLEAN :
          LET n == logger.th[t].call + 1 IN
          IF log_event_check(user_ip) # "none"
          THEN logger' = [logger EXCEPT !.th[t].call = n,
                             !.th[t].raised = @ \cup {n}]
          ELSE logger' = [logger EXCEPT !.th[t].call = n,
                             !.th[t].pc = "added",
                             !.th[t].pending = <<AuditRow(t, n, user_ip, status)>>]
    /\ UNCHANGED <<pureVars, accessVars, recvVars, sockVars, authVars, sess, dbs>>

\* a commit that writes the row over the last row of the table
LogCommitOverLast(t) ==
    /\ logger.pc = "run" /\ logger.th[t].pc = "added"
    /\ logger' = [logger EXCEPT
                    !.table = IF logger.table = <<>>
                              THEN logger.th[t].pending
                              ELSE SubSeq(logger.table, 1, Len(logger.table) - 1)
                                   \o logger.th[t].pending,
                    !.th[t].pc = "idle", !.th[t].pending = <<>>,
                    !.th[t].returned = @ \cup {logger.th[t].call}]
    /\ UNCHANGED <<pureVars, accessVars, recvVars, sockVars, authVars, sess, dbs>>

\* the with statement of thread t ends and db_session commits: the INSERT
\* and the COMMIT append the row to the table, and log_event returns
LogCommit(t) ==
    /\ logger.pc = "run" /\ logger.th[t].pc = "added"
    /\ logger' = [logger EXCEPT
                    !.table = logger.table \o logger.th[t].pending,
                    !.th[t].pc = "idle", !.th[t].pending = <<>>,
                    !.th[t].returned = @ \cup {logger.th[t].call}]
    /\ UNCHANGED <<pureVars, accessVars, recvVars, sockVars, authVars, sess, dbs>>

\* the commit of thread t fails (the database is locked by the other
\* writer for longer than the timeout): db_session rolls back, the row is
\* dropped and log_event raises
LogCommitFails(t) ==
    /\ logger.pc = "run" /\ logger.th[t].pc = "added"
    /\ \E u \in LogThreads \ {t} : logger.th[u].pc = "added"
    /\ logger' = [logger EXCEPT
                    !.th[t].pc = "idle", !.th[t].pending = <<>>,
                    !.th[t].raised = @ \cup {logger.th[t].call}]
    /\ UNCHANGED <<pureVars, accessVars, recvVars, sockVars, authVars, sess, dbs>>

NextLog ==
    \E t \in LogThreads : LogAdd(t) \/ LogCommit(t) \/ LogCommitFails(t)

SpecLog == InitLog /\ [][NextLog]_vars

-----------------------------------------------------------------------------
(* Claims about the codec and the validators (SpecPure) *)

TypeOk(t) == IsText(t) /\ t.v \in MessageTypes

\* d is a dict whose keys are all str
StrKeyed(d) == d.k = "dict" /\ \A i \in DOMAIN d.v : d.v[i][1].k = "str"

\* a value stored under a key of t's schema has another type than the schema's
WrongValue(t, d) ==
    /\ d.k = "dict"
    /\ \E i \in DOMAIN format_map(t.v) :
          LET key == PyStr(format_map(t.v)[i][1]) IN
          /\ HasKey(d, key)
          /\ ~HasType(Get(d, key), format_map(t.v)[i][2])

KeysDiffer(t, d) == d.k = "dict" /\ KeySet(d) # SchemaKeys(t.v)

C2_GenThenValidate ==
    /\ (ValidInput(arg) /\ rGen # NotRun) => rGen.err = "none"
    /\ (ValidInput(arg) /\ rVal # NotRun) =>
          /\ rVal.err = "none"
          /\ KeySet(Get(rVal.val, PyStr(s_data))) = SchemaKeys(arg.t.v)

BadEnvelope(a) == a.shape # "exact"

\* C4: validate_msg fails for every msg that (a) does not have exactly the
\* keys {type, data}, (b) has a type that is no MessageTypes member, (c) has
\* a data key set differing from the schema of its type, or (d) has a data
\* value whose type mismatches the schema; none is returned.
C4_ValidateMsgRejects ==
    (rRaw # NotRun /\
        (\/ BadEnvelope(arg)
         \/ ~TypeOk(arg.t)
         \/ (TypeOk(arg.t) /\ (arg.d.k # "dict" \/ KeysDiffer(arg.t, arg.d)))
         \/ (TypeOk(arg.t) /\ WrongValue(arg.t, arg.d))))
        => (rRaw.err \in {"TypeError", "ValueError"} /\ rRaw.val = PyNone)

\* validate_msg has refused a {type, data} message of a known type whose
\* data lacks a schema key
C4_Witness ==
    /\ arg.shape = "exact" /\ arg.t = PyEnum(ACCESS_REQUEST)
    /\ StrKeyed(arg.d) /\ ~HasKey(arg.d, PyStr(s_f_id))
    /\ HasKey(arg.d, PyStr(s_f_type))
    /\ rRaw.err = "ValueError"

-----------------------------------------------------------------------------
(* Claims about the access-control engine (SpecAccess) *)

\* the record the last request names, as a set
Requested == IF req = <<>> THEN {}
             ELSE session_get(store, req[1].v, Num(req[2]))

\* access returned a message of type t
Returned(t) ==
    /\ resp.err = "none"
    /\ PyEq(Get(resp.val, PyStr(s_type)), PyStr(t))

\* C5 as stated: for an existing SCP or USER record requiring clearance R
\* and a requester of clearance C, both in 1..6, access returns
\* ACCESS_GRANTED if and only if C >= R, and ACCESS_REDACTED otherwise.
C5_ClearanceGate ==
    \A r \in Requested :
        r.f_type \in {s_SCP, s_USER} =>
            IF user.clearance_lvl >= r.clearance_lvl
            THEN Returned(ACCESS_GRANTED)
            ELSE Returned(ACCESS_REDACTED)

\* C6 as stated: for an existing SITE record, access returns
\* ACCESS_GRANTED if and only if the requester's site_id is the site's id or
\* the requester's clearance is at least 3, and ACCESS_REDACTED otherwise.
C6_SiteGate ==
    \A r \in Requested :
        r.f_type = s_SITE =>
            IF user.site_id = r.id \/ user.clearance_lvl >= 3
            THEN Returned(ACCESS_GRANTED)
            ELSE Returned(ACCESS_REDACTED)

\* C7 as stated: for an existing MTF record, access returns ACCESS_GRANTED
\* for every requester, whatever the clearance and the site, and never
\* ACCESS_REDACTED.
C7_MtfOpen ==
    \A r \in Requested : r.f_type = s_MTF => Returned(ACCESS_GRANTED)

\* C8 as stated: for every valid file type and every file id the store
\* holds no record for, access returns ACCESS_EXPUNGED echoing the
\* requested type and id, and raises no exception.
C8_MissingRecordExpunged ==
    (req # <<>> /\ req[1].v \in Range(VALID_F_TYPES) /\ Requested = {}) =>
        /\ Returned(ACCESS_EXPUNGED)
        /\ PyEq(Get(resp.val, PyStr(s_data)),
                PyDict(<< <<PyStr(s_f_type), req[1]>>,
                          <<PyStr(s_f_id), req[2]>> >>))

\* C9 as stated: for every requested file type that is not one of SCP,
\* MTF, SITE, USER, access returns ACCESS_TYPE_FAIL whose 'tried' is the
\* requested type and whose 'valid' list is the four valid types; it makes
\* no record lookup and raises no exception.
C9_InvalidTypeFails ==
    (req # <<>> /\ req[1].v \notin Range(VALID_F_TYPES)) =>
        /\ Returned(<<"a","c","c","e","s","s","_","t","y","p","e","_",
                      "f","a","i","l">>)
        /\ PyEq(Get(Get(resp.val, PyStr(s_data)), PyStr(<<"t","r","i","e","d">>)),
                req[1])
        /\ PyEq(Get(Get(resp.val, PyStr(s_data)), PyStr(<<"v","a","l","i","d">>)),
                PyList([i \in DOMAIN VALID_F_TYPES |-> PyStr(VALID_F_TYPES[i])]))
        /\ (served = 1 => lookups = 0)

\* the texts access reads for a record of type f_type
BlobsOf(f_type) ==
    CASE f_type = s_SCP  -> {s_desc, s_cps, s_addenda}
      [] f_type = s_MTF  -> {s_mission}
      [] f_type = s_SITE -> {s_loc, s_desc, s_dossier}
      [] OTHER           -> {}

\* the requester passes the gate of record r
PassesGate(r) ==
    CASE r.f_type \in {s_SCP, s_USER} -> user.clearance_lvl >= r.clearance_lvl
      [] r.f_type = s_SITE -> user.site_id = r.id \/ user.clearance_lvl >= 3
      [] OTHER -> TRUE

\* C19 as stated: when access is granted and a text of the record is
\* missing from the file store, the response is still ACCESS_GRANTED, with
\* the placeholder "[DATA EXPUNGED]" in place of each missing text; a
\* missing text never raises.
C19_MissingBlobsGranted ==
    \A r \in Requested :
        (PassesGate(r) /\ BlobsOf(r.f_type) \ r.texts # {}) =>
            /\ Returned(ACCESS_GRANTED)
            /\ \A b \in BlobsOf(r.f_type) \ r.texts :
                  PyEq(Get(Get(Get(resp.val, PyStr(s_data)),
                               PyStr(<<"f","i","l","e","s">>)), PyStr(b)),
                       PyStr(EXPUNGED))

-----------------------------------------------------------------------------
(* Claims about recv (SpecRecv) *)

\* C10: when the 4-byte header recv has read declares a payload length
\* greater than MAX_MSG_S, recv raises MaxSizeLimitError having made the one
\* read of the header and no other: no payload byte is consumed.
C10_OversizeStopsAtHeader ==
    (rx.pc # "header" /\ Len(conn.header) = HEADER_S
        /\ unpack(conn.header) > MAX_MSG_S) =>
        /\ rx.pc = "done"
        /\ rRecv.err = "MaxSizeLimitError"
        /\ rx.reads = 1
        /\ rx.data_len = 0 /\ rx.chunk_count = 0

\* recv has refused a header declaring one byte more than the maximum while
\* the peer had that payload ready to send
C10_Witness ==
    /\ Len(conn.header) = HEADER_S
    /\ unpack(conn.header) = MAX_MSG_S + 1
    /\ conn.left = MAX_MSG_S + 1
    /\ rRecv.err = "MaxSizeLimitError"
    /\ rx.reads = 1

\* the peer sent the whole header and closed without a byte of payload
ClosedAfterHeader ==
    /\ Len(conn.header) = HEADER_S
    /\ conn.left = 0 /\ conn.closes /\ rx.data_len = 0

\* C11 as stated: if the peer sends a complete header declaring any length
\* not above the maximum and closes without sending the payload, recv raises
\* a connection-lost error; it returns no message and does not keep reading.
C11_ClosedAfterHeaderAnyLength ==
    (ClosedAfterHeader /\ unpack(conn.header) <= MAX_MSG_S) =>
        /\ rx.reads <= 2
        /\ rx.pc = "done" =>
              rRecv.err \in {"ConnectionAbortedError", "ConnectionError"}

\* C11 amended: if the peer sends a complete header declaring a length from
\* 1 to the maximum and closes without sending the payload, recv's first
\* payload read returns nothing and recv raises ConnectionAbortedError, a
\* ConnectionError: it makes two reads, returns no message and reads no
\* further.  With a declared length of 0 recv makes no payload read and
\* raises the ValueError of decoding an empty payload.
C11_ClosedAfterHeader ==
    /\ (ClosedAfterHeader /\ unpack(conn.header) \in 1..MAX_MSG_S) =>
          /\ rx.reads <= 2
          /\ rx.pc = "payload" => (rx.reads = 1 /\ rRecv = NotRun)
          /\ rx.pc = "done" =>
                /\ rRecv = Raise("ConnectionAbortedError")
                /\ rx.reads = 2 /\ rx.chunk_count = 0
    /\ (ClosedAfterHeader /\ unpack(conn.header) = 0 /\ rx.pc # "header") =>
          /\ rx.pc = "done" /\ rx.reads = 1
          /\ rRecv = Raise("ValueError")

\* recv has raised ConnectionAbortedError for a peer that declared a full
\* receive buffer and one byte and closed
C11_Witness ==
    /\ ClosedAfterHeader /\ unpack(conn.header) = RCV_S + 1
    /\ rx.pc = "done" /\ rx.reads = 2
    /\ rRecv.err = "ConnectionAbortedError"

\* C12 as stated: every frame whose payload recv goes on to read has
\* header size + declared payload length <= MAX_MSG_S; a frame over that
\* bound is refused before a payload byte is read.
C12_FrameWithinMax ==
    /\ rx.pc = "payload" => HEADER_S + rx.msg_size <= MAX_MSG_S
    /\ (Len(conn.header) = HEADER_S /\ rx.pc # "header"
          /\ HEADER_S + unpack(conn.header) > MAX_MSG_S) =>
          (rx.reads = 1 /\ rx.data_len = 0 /\ rRecv.err = "MaxSizeLimitError")

-----------------------------------------------------------------------------
(* Claims about encode, send and the probes (SpecSock) *)

\* C13 (as stated): whenever header plus serialized payload exceed the
\* maximum message size, encode raises MaxSizeLimitError, and a frame it
\* returns is never longer than the maximum.
C13_OversizeRaisesMaxSize ==
    (sarg.op = "encode" /\ rSock # NotRun /\ validate_data(sarg.data) = "none") =>
        LET n    == HEADER_S + Len(str_encode(dumps(sarg.data))) + sarg.pad.lo
            over == sarg.pad.hi >= 1 \/ n > MAX_MSG_S
        IN  /\ over => rSock.err = "MaxSizeLimitError"
            /\ rSock.err = "none" => ~over /\ rSock.val.size = n

\* the message send builds and the frame encode makes of it
SentFrame ==
    LET msg == gen_msg(sarg.t, sarg.d)
    IN  IF msg.err # "none" THEN msg ELSE encode_sized(msg.val, sarg.pad)

\* C17: send either hands the complete frame (header plus the whole encoded
\* gen_msg(t, d)) to the connection or raises; bytes are written only for a
\* message that passed gen_msg and the size check of encode, and when either
\* of the two fails send raises with zero bytes written.
C17_SendAllOrRaise ==
    (sarg.op = "send" /\ rSock # NotRun) =>
        /\ rSock.err = "none" =>
              /\ SentFrame.err = "none"
              /\ sock.out = SentFrame.val.size
              /\ sock.out = HEADER_S + unpack(SentFrame.val.header)
              /\ sock.out <= MAX_MSG_S
        /\ sock.out > 0 => SentFrame.err = "none"
        /\ SentFrame.err # "none" => rSock.err = SentFrame.err /\ sock.out = 0

\* a frame of exactly the maximum size was handed over whole
C17_Witness ==
    /\ sarg.op = "send" /\ rSock.err = "none"
    /\ sarg.pad.lo > 0
    /\ sock.out = MAX_MSG_S

\* C18 (as stated): after test_send or test_recv returns or raises, the
\* socket's timeout equals the value it had before the call.
C18_ProbeRestoresTimeout ==
    [][(TestSend \/ TestRecv) => sock'.timeout = sock.timeout]_vars

-----------------------------------------------------------------------------
(* Claims about authentication (SpecAuth) *)

\* the stored row with the requested id, as a set
StoredUser == {u \in accounts : u.id = Num(aarg[1])}

\* the pair the specification of auth_usr asks for
ExpectedAuth ==
    IF StoredUser = {} THEN <<PyStr(s_user_id), PyNone>>
    ELSE IF Registered[Num(aarg[1])] # aarg[2].v
         THEN <<PyStr(s_password), PyNone>>
    ELSE <<PyNone, [k |-> "User", v |-> Num(aarg[1])]>>

\* auth_usr returned the expected pair, one component of which is None
AuthAsExpected ==
    /\ rAuth.err = "none"
    /\ rAuth.val = ExpectedAuth
    /\ (rAuth.val[1] = PyNone) # (rAuth.val[2] = PyNone)

\* a positive int user_id and a non-empty str password
WellFormed ==
    /\ aarg # <<>>
    /\ aarg[1].k = "int" /\ aarg[1].v > 0
    /\ aarg[2].k = "str" /\ aarg[2].v # <<>>

\* the password holds a character that is not whitespace
NotBlank == \E i \in DOMAIN aarg[2].v : aarg[2].v[i] \notin {" ", "\t", "\n", "\r"}

\* C14 (as stated): for a positive user_id and a non-empty password auth_usr
\* never raises and returns ('user_id', None) when no user has that id,
\* ('password', None) when the password does not match the stored hash, and
\* (None, user) when it matches.
C14_AuthUsrNonEmpty ==
    (rAuth # NotRun /\ WellFormed) => AuthAsExpected

\* C14 (amended): the same for a positive user_id and a password that is
\* neither empty nor made of whitespace only; exactly one component of the
\* returned pair is None.
C14_AuthUsr ==
    (rAuth # NotRun /\ WellFormed /\ NotBlank) => AuthAsExpected

\* all three outcomes need a stored user: here the password matched
C14_Witness ==
    /\ WellFormed /\ NotBlank
    /\ StoredUser # {}
    /\ rAuth.err = "none"
    /\ rAuth.val = <<PyNone, [k |-> "User", v |-> 5]>>

\* C20 (as stated): every authentication decision (failure on user_id,
\* failure on password, success) appends one entry to the audit log, with
\* the matching success flag.
C20_AuthDecisionLogged ==
    [][(AuthUsr /\ rAuth'.err = "none") =>
          /\ Len(audit') = Len(audit) + 1
          /\ audit'[Len(audit')].success = (rAuth'.val[1] = PyNone)]_vars

-----------------------------------------------------------------------------
(* Claims about the session (SpecSession) *)

\* C15: on every exit path of handle_usr the client socket has been closed
\* when handle_usr ends, and nothing is read from or sent on the socket
\* after the close (the reads of recv stop where the close found them, and
\* handle_usr sends nothing).
C15_ClosedOnEveryExit ==
    /\ sess.pc = "ended" => sess.closed
    /\ sess.closed =>
          /\ sess.pc = "ended"
          /\ rx.reads = sess.reads
          /\ sess.sent = <<>>

\* handle_usr ended on the peer's disconnect in the middle of a frame, with
\* the socket closed
C15_Witness ==
    /\ sess.pc = "ended" /\ sess.closed
    /\ sess.err = "ConnectionAbortedError"
    /\ rx.data_len > 0 /\ rx.data_len < rx.msg_size

\* recv has read the whole frame of the stored user's AUTH_REQUEST
AuthRequestRead ==
    /\ rx.pc = "done"
    /\ Len(conn.header) = HEADER_S
    /\ rx.msg_size = Len(SampleBody)
    /\ rx.data_len = rx.msg_size

-----------------------------------------------------------------------------
(* Further claims about gen_msg and the builders (SpecPure) *)

\* C21 (as stated): gen_msg raises a TypeError whenever msg_type is not a
\* MessageTypes member: for None, for an int, and for a plain str, also one
\* that equals a member's value.
C21_NonMemberTypeError ==
    (rGen # NotRun /\ arg.t.k # "enum") => rGen.err = "TypeError"


-----------------------------------------------------------------------------
(* Further claims about the access-control engine (SpecAccess) *)

s_access_type_fail ==
    <<"a","c","c","e","s","s","_","t","y","p","e","_","f","a","i","l">>

\* every record the last request names exists and refuses the requester
Refused == Requested # {} /\ \A r \in Requested : ~PassesGate(r)

\* C22: every call of access that returns produces exactly one of TYPE_FAIL,
\* EXPUNGED, REDACTED, GRANTED, decided in the order type check, record
\* lookup, gate, with at most one lookup per call; EXPUNGED is returned only
\* when no record with the given type and id exists and REDACTED only when
\* the record exists (and refuses the requester).
C22_OneOutcome ==
    (req # <<>> /\ resp.err = "none") =>
        /\ \E t \in {s_access_type_fail, ACCESS_EXPUNGED, ACCESS_REDACTED,
                     ACCESS_GRANTED} : Returned(t)
        /\ Returned(s_access_type_fail) => req[1].v \notin Range(VALID_F_TYPES)
        /\ Returned(ACCESS_EXPUNGED) =>
              req[1].v \in Range(VALID_F_TYPES) /\ Requested = {}
        /\ Returned(ACCESS_REDACTED) => Refused
        /\ Returned(ACCESS_GRANTED) => Requested # {} /\ ~Refused
        /\ lookups <= served

\* two requests were served with one lookup each, the last one for a record
\* that does not exist
C22_Witness ==
    /\ Returned(ACCESS_EXPUNGED) /\ Requested = {}
    /\ served = 2 /\ lookups = 2


\* C23 (as stated): every access decision appends exactly one audit entry
\* carrying the requester's id and ip, with the success flag true if and
\* only if the outcome is GRANTED; TYPE_FAIL, EXPUNGED and REDACTED are
\* returned as messages with a failure entry and are never raised as
\* exceptions.
C23_DecisionLoggedOnce ==
    [][Access =>
          /\ Len(audit') = Len(audit) + 1
          /\ audit'[Len(audit')].user_id = user.id
          /\ audit'[Len(audit')].ip = peer_ip
          /\ resp'.err = "none"
          /\ audit'[Len(audit')].success =
                PyEq(Get(resp'.val, PyStr(s_type)), PyStr(ACCESS_GRANTED))]_vars


-----------------------------------------------------------------------------
(* Claims about db_session (SpecDb) *)

\* the body finished (early return included) and the commit succeeded
Committed == dbs.use.body \in {"ends", "returns"} /\ dbs.use.commit_ok

\* the use ended with a commit or with a rollback, one close after it, and
\* on the rollback path with the error raised as DatabaseSessionError
EndedAsStated ==
    IF Committed
    THEN dbs.trace = <<"commit", "close">> /\ dbs.err = "none"
    ELSE /\ dbs.trace \in {<<"rollback", "close">>,
                           <<"commit failed", "rollback", "close">>}
         /\ dbs.err = "DatabaseSessionError"

\* C25 (as stated): every use of db_session ends with exactly one of commit
\* (the body finished without an exception, early return included) or
\* rollback (the body or the commit raised), followed by exactly one close;
\* on the rollback path the error is re-raised as DatabaseSessionError.
C25_CommitOrRollbackEveryUse ==
    dbs.pc = "done" => EndedAsStated

\* C25 (amended): the same for every use in which Session() returned a
\* session; when Session() raises there is no commit, no rollback and no
\* close, and DatabaseSessionError is raised.
C25_CommitOrRollback ==
    dbs.pc = "done" =>
        IF dbs.session THEN EndedAsStated
        ELSE dbs.trace = <<>> /\ dbs.err = "DatabaseSessionError"

\* a failed commit after an early return was rolled back, closed and raised
C25_Witness ==
    /\ dbs.pc = "done" /\ dbs.use.body = "returns"
    /\ dbs.trace = <<"commit failed", "rollback", "close">>
    /\ dbs.err = "DatabaseSessionError"


-----------------------------------------------------------------------------
(* Claims about the audit log under concurrent writers (SpecLog) *)

\* the calls of thread t that have a row in the table, once per row
RowsOf(t) == {i \in DOMAIN logger.table : logger.table[i].user_id = t}

\* C24: with sessions logging concurrently the audit log only grows (no
\* entry is modified or removed), and it holds exactly one entry for each
\* log_event call that returned without error.
C24_AppendOnly ==
    /\ [][logger.pc = "run" =>
            /\ Len(logger'.table) >= Len(logger.table)
            /\ SubSeq(logger'.table, 1, Len(logger.table)) = logger.table]_vars
    /\ [](logger.pc = "run" =>
            \A t \in LogThreads :
                /\ {logger.table[i].call : i \in RowsOf(t)} = logger.th[t].returned
                /\ Cardinality(RowsOf(t)) = Cardinality(logger.th[t].returned))

\* both threads have finished, with rows of the two interleaved and a call
\* of each that raised
C24_Witness ==
    /\ logger.pc = "run"
    /\ \A t \in LogThreads : logger.th[t].call = MaxCalls /\ logger.th[t].pc = "idle"
    /\ Len(logger.table) = 2
    /\ logger.table[1].user_id = 2 /\ logger.table[2].user_id = 1
    /\ \A t \in LogThreads : logger.th[t].raised # {}


-----------------------------------------------------------------------------
(* Claims about the request loop of handle_usr (SpecLoop) *)

\* the peer went away while recv was reading: the header came empty or
\* short, or the payload was cut short by the close
PeerGone ==
    \/ Len(conn.header) < HEADER_S
    \/ rRecv.err = "ConnectionAbortedError"

-----------------------------------------------------------------------------
(* Claims about the builders (SpecBuild) *)

\* what each argument of a builder has to be
ArgKinds(name) ==
    CASE name = "auth_request"     -> <<"id", "str">>
      [] name = "auth_failed"      -> <<"str">>
      [] name = "auth_success"     -> <<"dict">>
      [] name = "access_request"   -> <<"str", "id">>
      [] name = "access_type_fail" -> <<"str">>
      [] name = "access_redacted"  -> <<"str", "hex", "str", "hex">>
      [] name = "access_expunged"  -> <<"str", "id">>
      [] name = "access_granted"   -> <<"dict">>

HexDigits == {"0","1","2","3","4","5","6","7","8","9",
              "a","b","c","d","e","f","A","B","C","D","E","F"}

\* v passes as an argument of the given kind
GoodArg(kind, v) ==
    CASE kind = "str" -> v.k = "str" /\ \E i \in DOMAIN v.v : v.v[i] # " "
      [] kind = "id"  -> v.k = "int" /\ v.v > 0
      [] kind = "hex" -> /\ v.k = "str" /\ Len(v.v) = 7 /\ v.v[1] = "#"
                         /\ \A i \in 2..7 : v.v[i] \in HexDigits
      [] kind = "dict" -> v.k = "dict"

\* C27 (as stated): each builder raises, and produces no message, for an
\* empty or whitespace-only string argument, a non-positive id, and a colour
\* that is not '#' and six hex digits; for arguments that pass, its result
\* is a message.
C27_BuildersCheckArguments ==
    (arg.shape \in Builders /\ rGen # NotRun) =>
        IF \A i \in DOMAIN arg.d.v : GoodArg(ArgKinds(arg.shape)[i], arg.d.v[i])
        THEN rGen.err = "none" /\ KeySet(rGen.val) = MESSAGE_KEYS
        ELSE rGen.err # "none" /\ rGen.val = PyNone


-----------------------------------------------------------------------------
(* Further claims about recv (SpecRecv) *)

\* the peer sends a complete valid frame: the whole header, declaring the
\* length of the sample message, and all of its payload
FrameOffered ==
    /\ Len(conn.header) = HEADER_S
    /\ unpack(conn.header) = Len(SampleBody)
    /\ rx.data_len + conn.left = Len(SampleBody)

\* C28 (as stated): when the peer delivers a complete valid frame, recv
\* returns the message for every division of the payload into non-empty
\* reads and consumes exactly the header and the declared payload.
C28_SplitIndependent ==
    (rx.pc = "done" /\ FrameOffered) =>
        /\ rRecv.err = "none"
        /\ rx.data_len = Len(SampleBody) /\ conn.left = 0


-----------------------------------------------------------------------------
(* Claims about a session's requests under a changing store                *)
(* (SpecAccessLive)                                                        *)

\* the stored row of the requester no longer shows the clearance the
\* session authenticated with
OwnRowChanged ==
    \A own \in session_get(store, s_USER, user.id) :
        own.clearance_lvl # user.clearance_lvl

-----------------------------------------------------------------------------
(* Claims about the request loop and its client (SpecServe)                *)

\* recv has read the whole payload its header declared
FullyReceived ==
    /\ rx.pc = "done"
    /\ Len(conn.header) = HEADER_S
    /\ ~exceeds_max(unpack(conn.header))
    /\ rx.data_len = unpack(conn.header)

=============================================================================
